---- MODULE Spec2Model ----
(***************************************************************************)
(* Bank simulation (Naidu3736/bank): the lock-partitioned in-memory ledger *)
(* of core/bank.py with the TrackedLock of server/locks.py, the CreditCard *)
(* arithmetic of core/credit_card.py, the TurnManager priority queue of    *)
(* server/turn_manger.py, the Turn object of core/turn.py, the dispatch    *)
(* loop and the operation binding of server/process_dispatcher.py and      *)
(* run_process of server/run_process.py.                                   *)
(*                                                                         *)
(* Each component has its own specification over the shared variables; a   *)
(* specification leaves the variables of the other components unchanged.   *)
(***************************************************************************)
EXTENDS Integers, Sequences, FiniteSets, TLC

(***************************************************************************)
(* Bounds of the ledger model.                                             *)
(***************************************************************************)
MaxCustomers == 2
MaxAccounts == 2
MaxTxns == 2

\* Bank.withdraw reports `3 - account.nip_attempts` remaining attempts.
LockoutThreshold == 3

Threads == {"t1", "t2"}
Emails == {"ana@x.com", "bob@x.com"}
Amounts == {0, 80, 150}
InitialBalances == {100}
Nips == {"1234", "9999"}
LockNames == {"customers_lock", "accounts_lock", "cards_lock", "turn_queue_lock"}

NoThread == "none"
NoNip == "none"
NoRef == "none"
NoAccount == "none"
NoCustomer == "none"

\* Customer.generate_customer_id (uuid4) and Account._generate_account_number
\* hand out fresh identifiers; the n-th one handed out is the n-th of these.
CustomerIds == <<"cust1", "cust2", "cust3", "cust4">>
AccountNumbers == <<"acc1", "acc2", "acc3", "acc4">>

VARIABLES
    customers,            \* Bank.customers: customer_id -> Customer
    accounts,             \* Bank.accounts: account_number -> Account
    transaction_history,  \* Bank.transaction_history (global audit list)
    locks,                \* BankLocks: lock name -> TrackedLock state
    customer_seq,         \* customer ids handed out so far (uuid4 is fresh)
    account_seq,          \* account numbers handed out so far
    call,                 \* per thread: the Bank method it is executing
    pc,                   \* per thread: where it is in that method
    last,                 \* history: the last Bank step that decided a result
    card,                 \* a CreditCard
    card_ops,             \* CreditCard methods called so far
    priority_queue,       \* TurnManager.priority_queue: the heap list
    active_turns,         \* TurnManager.active_turns: ids of dispatched turns
    turn_seq,             \* Turns constructed so far
    got,                  \* history: what the last get_next_turn returned
    turn_status,          \* Turn.status of each constructed Turn
    turn_ops,             \* Turn.operations of each constructed Turn
    dispatcher,           \* where the dispatch_processes thread is
    dispatching,          \* the Turn that thread holds in `turn`
    raised,               \* the exception that ended that thread
    stop_requested,       \* whether a stop of the dispatcher has been asked for
    made,                 \* history: the last Turn(...) constructor call
    turn_fields,          \* priority, service_type, attended of each Turn
    ran,                  \* history: the last run_process(turn, operations) call
    prepared,             \* history: the last _prepare_operations(turn, handler) call
    admission,            \* history: the last _assign_handler(turn) call
    prefix_counters,      \* Turn._prefix_counters: prefix -> next number
    creating,             \* per thread: where it is in Turn._generate_turn_id
    issued                \* history: the turn_ids generated, in order of return

ledgerVars == <<customers, accounts, transaction_history, locks, customer_seq,
                account_seq, call, pc, last>>

cardVars == <<card, card_ops>>

turnVars == <<priority_queue, active_turns, turn_seq, got>>

dispatcherVars == <<turn_status, turn_ops, dispatcher, dispatching, raised,
                    stop_requested, admission>>

turnObjectVars == <<made, turn_fields, ran, prepared>>

turnIdVars == <<prefix_counters, creating, issued>>

vars == <<ledgerVars, cardVars, turnVars, dispatcherVars, turnObjectVars,
          turnIdVars>>

\* What the Bank methods do not touch.
outsideLedger == <<cardVars, turnVars, dispatcherVars, turnObjectVars,
                   turnIdVars>>

\* What the CreditCard methods do not touch.
outsideCard == <<ledgerVars, turnVars, dispatcherVars, turnObjectVars,
                 turnIdVars>>

\* What the TurnManager methods do not touch.
outsideTurns == <<ledgerVars, cardVars, dispatcherVars, turnObjectVars,
                  turnIdVars>>

\* What the ProcessDispatcher does not touch.
outsideDispatcher == <<ledgerVars, cardVars, turnObjectVars, turnIdVars>>

(***************************************************************************)
(* core/account.py, core/customer.py, core/transaction.py                  *)
(***************************************************************************)

\* Account._hash_nip: sha256 of the NIP; injective on the NIPs used here, and a
\* hash is never equal to a NIP.
hash_nip(nip) == <<"sha256", nip>>

\* Account._hash_nip accepts only 4-digit numeric NIPs.
valid_nip_format(nip) == nip \in {"1234", "9999", "0000"}

\* Account.__init__
Account(customer_id, initial_balance, nip) ==
    [customer_id |-> customer_id,
     balance |-> initial_balance,
     nip_hash |-> IF nip # NoNip THEN hash_nip(nip) ELSE <<"sha256", NoNip>>,
     has_nip |-> nip # NoNip,
     nip_attempts |-> 0,
     is_locked |-> FALSE,
     transaction_history |-> <<>>]

\* Transaction.__init__; transaction_id (uuid4) is modelled by a serial number.
Transaction(id, account_id, amount, type, source_reference) ==
    [transaction_id |-> id, account_id |-> account_id, amount |-> amount,
     type |-> type, source_reference |-> source_reference]

\* Account.add_transaction: appends, and moves the balance for DEPOSIT and
\* WITHDRAWAL transactions.
add_transaction(acct, tx) ==
    [acct EXCEPT !.transaction_history = Append(@, tx),
                 !.balance = IF tx.type = "DEPOSIT" THEN @ + tx.amount
                             ELSE IF tx.type = "WITHDRAWAL" THEN @ - tx.amount
                             ELSE @]

\* Account.validate_nip
validate_nip(acct, nip) ==
    IF acct.is_locked THEN FALSE
    ELSE IF ~acct.has_nip THEN FALSE
    ELSE hash_nip(nip) = acct.nip_hash

\* Account.unlock_account
unlock_account(acct) == [acct EXCEPT !.is_locked = FALSE, !.nip_attempts = 0]

\* Customer.__init__
Customer(customer_id, email) ==
    [customer_id |-> customer_id, email |-> email, accounts |-> <<>>]

\* The entry of Customer.accounts that refers to the Account object acct:
\* its account_number and its customer_id, which nothing reassigns.
AccountRef(account_number, acct) ==
    [account_number |-> account_number, customer_id |-> acct.customer_id]

\* link_account appending whether or not the account is already linked
link_account_again(cust, account_number, acct) ==
    IF acct.customer_id # cust.customer_id THEN cust
    ELSE [cust EXCEPT !.accounts = Append(@, AccountRef(account_number, acct))]

\* Customer.link_account: refuses an account of another customer, and appends
\* the account unless it is already linked.
link_account(cust, account_number, acct) ==
    IF acct.customer_id # cust.customer_id THEN cust
    ELSE IF \E i \in 1..Len(cust.accounts) :
                cust.accounts[i].account_number = account_number
         THEN cust
         ELSE [cust EXCEPT !.accounts = Append(@, AccountRef(account_number, acct))]

(***************************************************************************)
(* core/bank.py: what each critical section does to the ledger.  Each      *)
(* operator returns the outcome and the ledger after it.                   *)
(***************************************************************************)

\* Bank.add_customer, the uniqueness test.
email_registered(custs, email) ==
    \E c \in DOMAIN custs : custs[c].email = email

\* A deposit that records its transaction in the account only.
deposit_account_only(accts, txs, account_number, amount, source_reference) ==
    IF account_number \notin DOMAIN accts
    THEN [ok |-> FALSE, why |-> "missing", accounts |-> accts, txns |-> txs]
    ELSE LET credited == [accts EXCEPT ![account_number].balance = @ + amount]
             tx == Transaction(Len(txs) + 1, account_number, amount, "DEPOSIT",
                               source_reference)
         IN  [ok |-> TRUE, why |-> "ok",
              accounts |-> [credited EXCEPT ![account_number] =
                               add_transaction(@, tx)],
              txns |-> txs]

\* Bank.deposit, the body under accounts_lock (amount > 0 was checked before).
\* With a source_reference the method reads TransactionType.TRANSFER_RECEIVED,
\* which the enum does not define: AttributeError, caught, returns False after
\* the balance was already raised.
deposit(accts, txs, account_number, amount, source_reference) ==
    IF account_number \notin DOMAIN accts
    THEN [ok |-> FALSE, why |-> "missing", accounts |-> accts, txns |-> txs]
    ELSE LET credited == [accts EXCEPT ![account_number].balance = @ + amount]
             tx == Transaction(Len(txs) + 1, account_number, amount, "DEPOSIT",
                               source_reference)
         IN  IF source_reference # NoRef
             THEN [ok |-> FALSE, why |-> "error", accounts |-> credited,
                   txns |-> txs]
             ELSE [ok |-> TRUE, why |-> "ok",
                   accounts |-> [credited EXCEPT ![account_number] =
                                    add_transaction(@, tx)],
                   txns |-> Append(txs, tx)]

\* A withdraw that debits before it checks the funds.
withdraw_debit_first(accts, txs, account_number, amount, nip) ==
    IF account_number \notin DOMAIN accts
    THEN [ok |-> FALSE, why |-> "missing", accounts |-> accts, txns |-> txs]
    ELSE IF ~validate_nip(accts[account_number], nip)
    THEN [ok |-> FALSE, why |-> "nip", accounts |-> accts, txns |-> txs]
    ELSE LET debited == [accts EXCEPT ![account_number].balance = @ - amount]
         IN  IF accts[account_number].balance < amount
             THEN [ok |-> FALSE, why |-> "funds", accounts |-> debited, txns |-> txs]
             ELSE [ok |-> TRUE, why |-> "ok", accounts |-> debited, txns |-> txs]

\* Bank.withdraw, the body under accounts_lock (amount > 0 was checked before).
withdraw(accts, txs, account_number, amount, nip) ==
    IF account_number \notin DOMAIN accts
    THEN [ok |-> FALSE, why |-> "missing", accounts |-> accts, txns |-> txs]
    ELSE IF accts[account_number].is_locked
    THEN [ok |-> FALSE, why |-> "locked", accounts |-> accts, txns |-> txs]
    ELSE IF nip = NoNip /\ accts[account_number].has_nip
         \* validate_nip(None): None.encode() raises AttributeError, caught
    THEN [ok |-> FALSE, why |-> "error", accounts |-> accts, txns |-> txs]
    ELSE IF ~validate_nip(accts[account_number], nip)
    THEN [ok |-> FALSE, why |-> "nip", accounts |-> accts, txns |-> txs]
    ELSE IF accts[account_number].balance < amount
    THEN [ok |-> FALSE, why |-> "funds", accounts |-> accts, txns |-> txs]
    ELSE LET debited == [accts EXCEPT ![account_number].balance = @ - amount]
             tx == Transaction(Len(txs) + 1, account_number, amount,
                               "WITHDRAWAL", NoRef)
         IN  [ok |-> TRUE, why |-> "ok",
              accounts |-> [debited EXCEPT ![account_number] =
                               add_transaction(@, tx)],
              txns |-> Append(txs, tx)]

\* A transfer that takes the amount from the source before it looks at the
\* balance.
transfer_debit_first(accts, txs, source_id, target_id, amount, nip) ==
    IF source_id = target_id
    THEN [ok |-> FALSE, why |-> "same", accounts |-> accts, txns |-> txs]
    ELSE IF source_id \notin DOMAIN accts \/ target_id \notin DOMAIN accts
    THEN [ok |-> FALSE, why |-> "missing", accounts |-> accts, txns |-> txs]
    ELSE IF nip # NoNip /\ ~validate_nip(accts[source_id], nip)
    THEN [ok |-> FALSE, why |-> "nip", accounts |-> accts, txns |-> txs]
    ELSE [ok |-> FALSE, why |-> "funds",
          accounts |-> [accts EXCEPT ![source_id].balance = @ - amount],
          txns |-> txs]

\* Bank.transfer, the body under accounts_lock.
transfer(accts, txs, source_id, target_id, amount, nip) ==
    IF source_id = target_id
    THEN [ok |-> FALSE, why |-> "same", accounts |-> accts, txns |-> txs]
    ELSE IF source_id \notin DOMAIN accts \/ target_id \notin DOMAIN accts
    THEN [ok |-> FALSE, why |-> "missing", accounts |-> accts, txns |-> txs]
    ELSE IF nip # NoNip /\ ~validate_nip(accts[source_id], nip)
    THEN [ok |-> FALSE, why |-> "nip", accounts |-> accts, txns |-> txs]
    ELSE IF accts[source_id].balance < amount
    THEN [ok |-> FALSE, why |-> "funds", accounts |-> accts, txns |-> txs]
    ELSE LET moved == [accts EXCEPT ![source_id].balance = @ - amount,
                                    ![target_id].balance = @ + amount]
             source_transaction ==
                 Transaction(Len(txs) + 1, source_id, amount, "TRANSFER",
                             target_id)
             target_transaction ==
                 Transaction(Len(txs) + 2, target_id, amount, "DEPOSIT",
                             source_id)
         IN  [ok |-> TRUE, why |-> "ok",
              accounts |-> [moved EXCEPT
                               ![source_id] = add_transaction(@, source_transaction),
                               ![target_id] = add_transaction(@, target_transaction)],
              txns |-> txs \o <<source_transaction, target_transaction>>]

(***************************************************************************)
(* server/locks.py: TrackedLock.  _lock is the threading.Lock; _is_acquired *)
(* and _owner_pid are the manual tracking fields, written in separate      *)
(* steps from the lock itself.                                             *)
(***************************************************************************)
FreeLock == [held |-> FALSE, is_acquired |-> FALSE, owner |-> NoThread]

\* An acquire that never waits.
CanLock_never_waits(l) == TRUE

\* TrackedLock.acquire: self._lock.acquire(blocking) returns once the lock is free.
CanLock(l) == ~locks[l].held

NoCard == [type |-> "none"]

NoGot == [called |-> FALSE, turn |-> <<>>, queue |-> <<>>, update |-> <<>>]

\* No Turn(...) call yet; priority 0 stands for priority=None.
NoMade == [called |-> FALSE, card |-> NoCard, priority |-> 0,
           result |-> [raised |-> "none", priority |-> 0]]

\* No run_process call yet.
NoRan == [called |-> FALSE, turn |-> 0, operations |-> <<>>, raised |-> "none"]

\* No _prepare_operations call yet.
NoPrepared == [called |-> FALSE, operations |-> <<>>, handler |-> "none",
               raised |-> "none", bound |-> <<>>]

\* No _assign_handler call yet.  acquires lists the semaphore acquire calls
\* the call made; result is what it returned, or the exception that left it.
\* Turn._priority_to_prefix
priority_to_prefix(priority) ==
    CASE priority = 1 -> "VIP"
      [] priority = 2 -> "AZ"
      [] priority = 3 -> "C"

Prefixes == {"C", "AZ", "VIP"}

NoCreating == [pc |-> "idle", prefix |-> "none", turn_id |-> <<>>, loaded |-> 0]

\* The class attribute Turn._prefix_counters as the module is loaded, with no
\* thread constructing a Turn.
TurnIdInit ==
    /\ prefix_counters = [p \in Prefixes |-> 1]
    /\ creating = [t \in Threads |-> NoCreating]
    /\ issued = <<>>

NoAdmission == [called |-> FALSE, turn |-> 0, acquires |-> <<>>,
                result |-> "none"]

NoCall == [op |-> "none", account |-> NoAccount, target |-> NoAccount,
           customer |-> NoCustomer, email |-> "none", amount |-> 0,
           nip |-> NoNip, ref |-> NoRef, created |-> NoAccount,
           want |-> "none", held |-> <<>>]

NoLast == [op |-> "none", ok |-> FALSE, why |-> "none", call |-> NoCall,
           accounts |-> <<>>, txns |-> <<>>, customers |-> <<>>, streak |-> 0]

\* The record of a step that decided the result of call c, with the ledger
\* as it was before the step.
Decided(c, ok, why) ==
    [op |-> c.op, ok |-> ok, why |-> why, call |-> c,
     accounts |-> accounts, txns |-> transaction_history, customers |-> customers,
     streak |-> 0]

\* The number of consecutive Bank calls, c being the latest, that were
\* withdraws on c.account rejected for a wrong NIP (counted up to the
\* lockout threshold).
Streak(c, why) ==
    IF why # "nip" THEN 0
    ELSE IF last.op = "withdraw" /\ last.why = "nip" /\ last.call.account = c.account
    THEN IF last.streak < LockoutThreshold THEN last.streak + 1 ELSE last.streak
    ELSE 1

Init ==
    /\ customers = <<>>
    /\ accounts = <<>>
    /\ transaction_history = <<>>
    /\ locks = [l \in LockNames |-> FreeLock]
    /\ customer_seq = 0
    /\ account_seq = 0
    /\ call = [t \in Threads |-> NoCall]
    /\ pc = [t \in Threads |-> "idle"]
    /\ last = NoLast
    /\ card = NoCard
    /\ card_ops = 0
    /\ priority_queue = <<>>
    /\ active_turns = {}
    /\ turn_seq = 0
    /\ got = NoGot
    /\ turn_status = <<>>
    /\ turn_ops = <<>>
    /\ dispatcher = "loop"
    /\ dispatching = <<>>
    /\ raised = "none"
    /\ stop_requested = FALSE
    /\ made = NoMade
    /\ turn_fields = <<>>
    /\ ran = NoRan
    /\ prepared = NoPrepared
    /\ admission = NoAdmission
    /\ TurnIdInit

(***************************************************************************)
(* Specification Spec: the Bank methods called one at a time.  A call      *)
(* takes its lock, runs its body and releases the lock in one step, so the *)
(* lock is free again when the step ends.                                  *)
(***************************************************************************)

\* Bank.add_customer
add_customer ==
    /\ customer_seq < MaxCustomers
    /\ CanLock("customers_lock")
    /\ \E e \in Emails :
          LET c == [NoCall EXCEPT !.op = "add_customer", !.email = e]
              id == CustomerIds[customer_seq + 1]
          IN  IF email_registered(customers, e)
              THEN /\ last' = Decided(c, FALSE, "duplicate")
                   /\ UNCHANGED <<customers, customer_seq>>
              ELSE /\ customers' = (id :> Customer(id, e)) @@ customers
                   /\ customer_seq' = customer_seq + 1
                   /\ last' = Decided(c, TRUE, "ok")
    /\ UNCHANGED <<accounts, transaction_history, locks, account_seq, call, pc>>
    /\ UNCHANGED outsideLedger

\* Bank.add_account
add_account ==
    /\ account_seq < MaxAccounts
    /\ CanLock("customers_lock") /\ CanLock("accounts_lock")
    /\ \E i \in 1..MaxCustomers, b \in InitialBalances, n \in {"1234", "12"} :
          LET c == [NoCall EXCEPT !.op = "add_account", !.customer = CustomerIds[i],
                                  !.amount = b, !.nip = n]
              number == AccountNumbers[account_seq + 1]
              account == Account(c.customer, b, n)
          IN  IF c.customer \notin DOMAIN customers
              THEN /\ last' = Decided(c, FALSE, "missing")
                   /\ UNCHANGED <<customers, accounts, account_seq>>
              ELSE IF ~valid_nip_format(n)
              THEN /\ last' = Decided(c, FALSE, "nip")
                   /\ UNCHANGED <<customers, accounts, account_seq>>
              ELSE /\ accounts' = (number :> account) @@ accounts
                   /\ account_seq' = account_seq + 1
                   /\ customers' = [customers EXCEPT ![c.customer] =
                                       link_account(@, number, account)]
                   /\ last' = Decided(c, TRUE, "ok")
    /\ UNCHANGED <<transaction_history, locks, customer_seq, call, pc>>
    /\ UNCHANGED outsideLedger

\* Bank.deposit, called without a source_reference
Deposit ==
    /\ Len(transaction_history) < MaxTxns
    /\ CanLock("accounts_lock")
    /\ \E i \in 1..MaxAccounts, a \in Amounts :
          LET c == [NoCall EXCEPT !.op = "deposit", !.account = AccountNumbers[i],
                                  !.amount = a]
              r == deposit(accounts, transaction_history, c.account, a, NoRef)
          IN  IF a <= 0
              THEN /\ last' = Decided(c, FALSE, "amount")
                   /\ UNCHANGED <<accounts, transaction_history>>
              ELSE /\ accounts' = r.accounts
                   /\ transaction_history' = r.txns
                   /\ last' = Decided(c, r.ok, r.why)
    /\ UNCHANGED <<customers, locks, customer_seq, account_seq, call, pc>>
    /\ UNCHANGED outsideLedger

\* Bank.withdraw
Withdraw ==
    /\ Len(transaction_history) < MaxTxns
    /\ CanLock("accounts_lock")
    /\ \E i \in 1..MaxAccounts, a \in Amounts, n \in Nips :
          LET c == [NoCall EXCEPT !.op = "withdraw", !.account = AccountNumbers[i],
                                  !.amount = a, !.nip = n]
              r == withdraw(accounts, transaction_history, c.account, a, n)
          IN  IF a <= 0
              THEN /\ last' = Decided(c, FALSE, "amount")
                   /\ UNCHANGED <<accounts, transaction_history>>
              ELSE /\ accounts' = r.accounts
                   /\ transaction_history' = r.txns
                   /\ last' = [Decided(c, r.ok, r.why) EXCEPT
                                  !.streak = Streak(c, r.why)]
    /\ UNCHANGED <<customers, locks, customer_seq, account_seq, call, pc>>
    /\ UNCHANGED outsideLedger

\* Bank.transfer
Transfer ==
    /\ Len(transaction_history) + 1 < MaxTxns
    /\ CanLock("accounts_lock")
    /\ \E i \in 1..MaxAccounts, j \in 1..MaxAccounts, a \in Amounts,
          n \in Nips \cup {NoNip} :
          LET c == [NoCall EXCEPT !.op = "transfer", !.account = AccountNumbers[i],
                                  !.target = AccountNumbers[j], !.amount = a,
                                  !.nip = n]
              r == transfer(accounts, transaction_history, c.account, c.target, a, n)
          IN  /\ accounts' = r.accounts
              /\ transaction_history' = r.txns
              /\ last' = Decided(c, r.ok, r.why)
    /\ UNCHANGED <<customers, locks, customer_seq, account_seq, call, pc>>
    /\ UNCHANGED outsideLedger

\* Account.unlock_account, called on a registered account.
UnlockAccount ==
    /\ \E a \in DOMAIN accounts :
          /\ accounts' = [accounts EXCEPT ![a] = unlock_account(@)]
          /\ last' = NoLast
    /\ UNCHANGED <<customers, transaction_history, locks, customer_seq, account_seq,
                   call, pc>>
    /\ UNCHANGED outsideLedger

\* The amounts paid to a credit card.
Payments == {80}

CardNumbers == {"card1"}

\* Bank.card_registry: card_number -> card.  It is created empty and written
\* only by issue_debit_card and issue_credit_card, each after a card
\* constructor that raises TypeError, so it stays empty.
card_registry == <<>>

\* A pay_credit_card that debits the account before it looks the card up.
pay_credit_card_debit_first(accts, txs, registry, card_number, amount, payment_source) ==
    [ok |-> FALSE, why |-> "card",
     accounts |-> [accts EXCEPT ![payment_source].balance = @ - amount],
     txns |-> txs, paid |-> 0]

\* Bank.pay_credit_card with a payment_source (is_cash = False): the card
\* test under cards_lock, the debit under accounts_lock with a PAYMENT
\* transaction recorded in the account only, then card.make_payment(amount),
\* which raises ValueError for amount <= 0, and the global record; paid is
\* the amount handed to card.make_payment.
pay_credit_card(accts, txs, registry, card_number, amount, payment_source) ==
    IF card_number \notin DOMAIN registry
    THEN [ok |-> FALSE, why |-> "card", accounts |-> accts, txns |-> txs,
          paid |-> 0]
    ELSE IF payment_source \notin DOMAIN accts
    THEN [ok |-> FALSE, why |-> "funds", accounts |-> accts, txns |-> txs,
          paid |-> 0]
    ELSE IF accts[payment_source].balance < amount
    THEN [ok |-> FALSE, why |-> "funds", accounts |-> accts, txns |-> txs,
          paid |-> 0]
    ELSE LET account_transaction ==
                 Transaction(Len(txs) + 1, payment_source, amount, "PAYMENT",
                             NoRef)
             payment_transaction ==
                 Transaction(Len(txs) + 2, payment_source, amount, "PAYMENT",
                             NoRef)
             debited == [accts EXCEPT ![payment_source] =
                            add_transaction([@ EXCEPT !.balance = @ - amount],
                                            account_transaction)]
         IN  IF amount <= 0
             THEN [ok |-> FALSE, why |-> "amount", accounts |-> debited,
                   txns |-> txs, paid |-> 0]
             ELSE [ok |-> TRUE, why |-> "ok", accounts |-> debited,
                   txns |-> Append(txs, payment_transaction), paid |-> amount]

\* Bank.pay_credit_card with a registered account as payment_source.
\* Bank.card_registry is filled only by issue_debit_card and
\* issue_credit_card, after a card constructor that raises TypeError, so
\* card_registry.get(card_number) is None whatever the card_number and the
\* method returns False under the first cards_lock.
PayCreditCard ==
    /\ CanLock("cards_lock")
    /\ \E a \in DOMAIN accounts, amt \in Payments, number \in CardNumbers :
          LET c == [NoCall EXCEPT !.op = "pay_credit_card", !.account = a,
                                  !.amount = amt]
              r == pay_credit_card(accounts, transaction_history, card_registry,
                                   number, amt, a)
          IN  /\ accounts' = r.accounts
              /\ transaction_history' = r.txns
              /\ last' = Decided(c, r.ok, r.why)
    /\ UNCHANGED <<customers, locks, customer_seq, account_seq, call, pc>>
    /\ UNCHANGED outsideLedger

Next ==
    \/ add_customer
    \/ add_account
    \/ Deposit
    \/ Withdraw
    \/ Transfer
    \/ UnlockAccount
    \/ PayCreditCard

Spec == Init /\ [][Next]_vars

(***************************************************************************)
(* Specification SpecLedger: the Bank methods that register and remove     *)
(* customers and accounts and link them, called one after another.         *)
(***************************************************************************)

\* Bank.delete_customer
delete_customer ==
    /\ CanLock("customers_lock")
    /\ \E i \in 1..MaxCustomers :
          LET c == [NoCall EXCEPT !.op = "delete_customer",
                                  !.customer = CustomerIds[i]]
          IN  IF c.customer \in DOMAIN customers
              THEN /\ customers' = [k \in DOMAIN customers \ {c.customer}
                                       |-> customers[k]]
                   /\ last' = Decided(c, TRUE, "ok")
              ELSE /\ last' = Decided(c, FALSE, "missing")
                   /\ UNCHANGED customers
    /\ UNCHANGED <<accounts, transaction_history, locks, customer_seq,
                   account_seq, call, pc>>
    /\ UNCHANGED outsideLedger

\* Bank.close_account
close_account ==
    /\ CanLock("accounts_lock")
    /\ \E i \in 1..MaxAccounts :
          LET c == [NoCall EXCEPT !.op = "close_account",
                                  !.account = AccountNumbers[i]]
          IN  IF c.account \in DOMAIN accounts
              THEN /\ accounts' = [k \in DOMAIN accounts \ {c.account}
                                      |-> accounts[k]]
                   /\ last' = Decided(c, TRUE, "ok")
              ELSE /\ last' = Decided(c, FALSE, "missing")
                   /\ UNCHANGED accounts
    /\ UNCHANGED <<customers, transaction_history, locks, customer_seq,
                   account_seq, call, pc>>
    /\ UNCHANGED outsideLedger

\* Bank.link_account_to_customer
link_account_to_customer ==
    /\ CanLock("accounts_lock") /\ CanLock("customers_lock")
    /\ \E i \in 1..MaxAccounts, j \in 1..MaxCustomers :
          LET c == [NoCall EXCEPT !.op = "link_account_to_customer",
                                  !.account = AccountNumbers[i],
                                  !.customer = CustomerIds[j]]
          IN  IF c.account \notin DOMAIN accounts
              THEN /\ last' = Decided(c, FALSE, "missing")
                   /\ UNCHANGED customers
              ELSE IF accounts[c.account].customer_id # c.customer
              THEN /\ last' = Decided(c, FALSE, "owner")
                   /\ UNCHANGED customers
              ELSE IF c.customer \notin DOMAIN customers
              THEN /\ last' = Decided(c, FALSE, "customer")
                   /\ UNCHANGED customers
              ELSE /\ customers' = [customers EXCEPT ![c.customer] =
                          link_account(@, c.account, accounts[c.account])]
                   /\ last' = Decided(c, TRUE, "ok")
    /\ UNCHANGED <<accounts, transaction_history, locks, customer_seq,
                   account_seq, call, pc>>
    /\ UNCHANGED outsideLedger

\* Customer.link_account called on a registered customer with a registered
\* account; it returns False for an account of another customer.
customer_link_account ==
    /\ \E a \in DOMAIN accounts, k \in DOMAIN customers :
          LET c == [NoCall EXCEPT !.op = "link_account", !.account = a,
                                  !.customer = k]
          IN  /\ customers' = [customers EXCEPT ![k] =
                                  link_account(@, a, accounts[a])]
              /\ last' = Decided(c, accounts[a].customer_id = k,
                                 IF accounts[a].customer_id = k THEN "ok"
                                 ELSE "owner")
    /\ UNCHANGED <<accounts, transaction_history, locks, customer_seq,
                   account_seq, call, pc>>
    /\ UNCHANGED outsideLedger

SourceReferences == {"ref1"}

MaxBalance == 300

\* Bank.deposit called with a source_reference
DepositFrom ==
    /\ CanLock("accounts_lock")
    /\ \E i \in 1..MaxAccounts, a \in Amounts, ref \in SourceReferences :
          LET c == [NoCall EXCEPT !.op = "deposit", !.account = AccountNumbers[i],
                                  !.amount = a, !.ref = ref]
              r == deposit(accounts, transaction_history, c.account, a, ref)
          IN  /\ c.account \in DOMAIN accounts =>
                     accounts[c.account].balance + a <= MaxBalance
              /\ IF a <= 0
                 THEN /\ last' = Decided(c, FALSE, "amount")
                      /\ UNCHANGED <<accounts, transaction_history>>
                 ELSE /\ accounts' = r.accounts
                      /\ transaction_history' = r.txns
                      /\ last' = Decided(c, r.ok, r.why)
    /\ UNCHANGED <<customers, locks, customer_seq, account_seq, call, pc>>
    /\ UNCHANGED outsideLedger

NonPositiveAmounts == {0, -80}

\* Bank.transfer called without a NIP and with an amount that is not positive
TransferNonPositive ==
    /\ Len(transaction_history) + 1 < MaxTxns
    /\ CanLock("accounts_lock")
    /\ \E i \in 1..MaxAccounts, j \in 1..MaxAccounts, a \in NonPositiveAmounts :
          LET c == [NoCall EXCEPT !.op = "transfer", !.account = AccountNumbers[i],
                                  !.target = AccountNumbers[j], !.amount = a]
              r == transfer(accounts, transaction_history, c.account, c.target, a,
                            NoNip)
          IN  /\ accounts' = r.accounts
              /\ transaction_history' = r.txns
              /\ last' = Decided(c, r.ok, r.why)
    /\ UNCHANGED <<customers, locks, customer_seq, account_seq, call, pc>>
    /\ UNCHANGED outsideLedger

\* Specification SpecArguments: deposits made with a source_reference and
\* transfers of amounts that are not positive, on registered accounts.
ArgumentsNext ==
    \/ add_customer
    \/ add_account
    \/ DepositFrom
    \/ TransferNonPositive

SpecArguments == Init /\ [][ArgumentsNext]_vars

LedgerNext ==
    \/ add_customer
    \/ delete_customer
    \/ add_account
    \/ close_account
    \/ link_account_to_customer
    \/ customer_link_account

SpecLedger == Init /\ [][LedgerNext]_vars

\* C34: every account in a customer's accounts list has that customer's id
\* as customer_id and appears once; a link of an account of another customer
\* is rejected, and a rejected or repeated link leaves the list as it was.
C34_LinkedAccountsAreOwnAndUnique ==
    /\ [](\A k \in DOMAIN customers :
             \A i \in 1..Len(customers[k].accounts) :
                /\ customers[k].accounts[i].customer_id = k
                /\ \A j \in 1..Len(customers[k].accounts) :
                      customers[k].accounts[i].account_number
                          = customers[k].accounts[j].account_number => i = j)
    /\ []((last.op \in {"link_account", "link_account_to_customer"}
             /\ last.call.account \in DOMAIN last.accounts
             /\ last.accounts[last.call.account].customer_id # last.call.customer)
            => (~last.ok /\ customers = last.customers))
    /\ []((last.op \in {"link_account", "link_account_to_customer"}
             /\ last.call.customer \in DOMAIN last.customers
             /\ \E i \in 1..Len(last.customers[last.call.customer].accounts) :
                    last.customers[last.call.customer].accounts[i].account_number
                        = last.call.account)
            => customers = last.customers)

\* An account already in its owner's list has been linked again, and the
\* call returned True.
C34_Witness ==
    /\ last.op = "link_account_to_customer"
    /\ last.ok
    /\ Len(customers[last.call.customer].accounts) = 1
    /\ customers[last.call.customer].accounts[1].account_number = last.call.account

\* No account is ever locked: nothing sets is_locked.
NoAccountIsEverLocked ==
    \A a \in DOMAIN accounts :
        ~accounts[a].is_locked /\ accounts[a].nip_attempts = 0

\* C36: a deposit that returns failure, made with or without a
\* source_reference, leaves every account and the global transaction list as
\* they were.
C36_FailedDepositChangesNothing ==
    (last.op = "deposit" /\ ~last.ok) =>
        /\ accounts = last.accounts
        /\ transaction_history = last.txns

\* C38: a transfer never lowers the balance of its target nor raises the
\* balance of its source, and a transfer of an amount <= 0 is rejected and
\* changes no balance.
C38_TransferNeverReverses ==
    (last.op = "transfer" /\ last.call.account \in DOMAIN last.accounts
                         /\ last.call.target \in DOMAIN last.accounts) =>
        /\ accounts[last.call.target].balance
              >= last.accounts[last.call.target].balance
        /\ accounts[last.call.account].balance
              <= last.accounts[last.call.account].balance
        /\ last.call.amount <= 0 =>
              /\ ~last.ok
              /\ \A a \in DOMAIN accounts :
                    accounts[a].balance = last.accounts[a].balance

\* C40: every registered account belongs to a registered customer, and every
\* account in a registered customer's accounts list is a registered account.
C40_ReferentiallyClosed ==
    /\ \A a \in DOMAIN accounts : accounts[a].customer_id \in DOMAIN customers
    /\ \A k \in DOMAIN customers :
          \A i \in 1..Len(customers[k].accounts) :
             customers[k].accounts[i].account_number \in DOMAIN accounts

(***************************************************************************)
(* Claims on the ledger, specification Spec.  last holds the latest call,  *)
(* its result and the ledger before it; the state is the ledger after it.  *)
(***************************************************************************)

\* The transaction an account recorded last.
LastOf(a) == accounts[a].transaction_history[Len(accounts[a].transaction_history)]

\* C1: a successful transfer of amount from source to target lowers the
\* source balance by exactly amount and raises the target balance by exactly
\* amount.
C1_TransferConserves ==
    (last.op = "transfer" /\ last.ok) =>
        /\ accounts[last.call.account].balance
              = last.accounts[last.call.account].balance - last.call.amount
        /\ accounts[last.call.target].balance
              = last.accounts[last.call.target].balance + last.call.amount

\* C2: a successful deposit raises the balance of the account by exactly amount
\* and appends exactly one DEPOSIT transaction of that amount to its history.
C2_DepositExact ==
    (last.op = "deposit" /\ last.ok) =>
        LET a == last.call.account IN
        /\ accounts[a].balance = last.accounts[a].balance + last.call.amount
        /\ Len(accounts[a].transaction_history)
              = Len(last.accounts[a].transaction_history) + 1
        /\ LastOf(a).type = "DEPOSIT"
        /\ LastOf(a).amount = last.call.amount

\* C3: a successful withdraw lowers the balance of the account by exactly
\* amount, appends exactly one WITHDRAWAL transaction of that amount, and
\* leaves the balance at or above zero.
C3_WithdrawExact ==
    (last.op = "withdraw" /\ last.ok) =>
        LET a == last.call.account IN
        /\ accounts[a].balance = last.accounts[a].balance - last.call.amount
        /\ Len(accounts[a].transaction_history)
              = Len(last.accounts[a].transaction_history) + 1
        /\ LastOf(a).type = "WITHDRAWAL"
        /\ LastOf(a).amount = last.call.amount
        /\ accounts[a].balance >= 0

\* C4: a withdraw that fails (amount <= 0, account missing, account locked,
\* wrong NIP, or balance < amount) leaves the balance and the transaction
\* history of every account unchanged.
C4_FailedWithdrawChangesNothing ==
    (last.op = "withdraw" /\ ~last.ok) =>
        /\ DOMAIN accounts = DOMAIN last.accounts
        /\ \A a \in DOMAIN accounts :
              /\ accounts[a].balance = last.accounts[a].balance
              /\ accounts[a].transaction_history
                    = last.accounts[a].transaction_history
        /\ transaction_history = last.txns

\* A withdraw with the right NIP was refused for insufficient funds.
C4_Witness ==
    /\ last.op = "withdraw" /\ ~last.ok /\ last.why = "funds"
    /\ last.call.amount > last.accounts[last.call.account].balance

\* C5: after 3 consecutive withdraw calls with a wrong NIP on the same account
\* the account is locked.
C5_LockedAfterThreeWrongNips ==
    (last.op = "withdraw" /\ last.streak >= LockoutThreshold) =>
        accounts[last.call.account].is_locked

\* C17: a transfer that is rejected (source equal to target, source or target
\* not registered, a NIP supplied and wrong, or source balance < amount) leaves
\* every account's balance and transaction history and the global transaction
\* list as they were.
C17_RejectedTransferChangesNothing ==
    (last.op = "transfer" /\ ~last.ok) =>
        /\ last.why \in {"same", "missing", "nip", "funds"}
        /\ accounts = last.accounts
        /\ transaction_history = last.txns

\* A transfer between two registered accounts was rejected for a wrong NIP
\* although the source held the amount.
C17_Witness ==
    /\ last.op = "transfer"
    /\ last.why = "nip"
    /\ last.call.nip = "9999"
    /\ last.call.amount > 0
    /\ last.accounts[last.call.account].balance >= last.call.amount
    /\ accounts = last.accounts

StartsWith(s, p) == Len(p) <= Len(s) /\ SubSeq(s, 1, Len(p)) = p

\* C23: every Transaction in the transaction_history of a registered account
\* is also in the Bank's global transaction_history, and no step removes or
\* changes a Transaction already recorded in an account's list or in the
\* global list.
C23_HistoriesAgreeAndOnlyGrow ==
    /\ [](\A a \in DOMAIN accounts :
            \A i \in 1..Len(accounts[a].transaction_history) :
               \E j \in 1..Len(transaction_history) :
                  transaction_history[j] = accounts[a].transaction_history[i])
    /\ [][/\ StartsWith(transaction_history', transaction_history)
          /\ \A a \in DOMAIN accounts :
                /\ a \in DOMAIN accounts'
                /\ StartsWith(accounts'[a].transaction_history,
                              accounts[a].transaction_history)]_vars

\* A transfer was recorded: the source's and the target's histories each hold
\* a record and the global list holds both.
C23_Witness ==
    /\ last.op = "transfer" /\ last.ok
    /\ Len(transaction_history) = Len(last.txns) + 2
    /\ Len(accounts[last.call.account].transaction_history) > 0
    /\ Len(accounts[last.call.target].transaction_history) > 0

(***************************************************************************)
(* Specification SpecThreads: Bank.add_customer, Bank.delete_customer and  *)
(* Bank.add_account called from several threads.  A thread switch can fall *)
(* between any two steps of a method, so the TrackedLock and the critical  *)
(* sections are taken one step at a time.                                  *)
(***************************************************************************)

\* add_customer calls that have not yet inserted or failed.
AddsInFlight ==
    Cardinality({t \in Threads : /\ call[t].op = "add_customer"
                                 /\ pc[t] \in {"acquire", "flag", "body", "insert"}})

\* add_account calls that have not yet created their account or failed.
AccountsInFlight ==
    Cardinality({t \in Threads : /\ call[t].op = "add_account"
                                 /\ call[t].created = NoAccount
                                 /\ pc[t] # "idle"})

\* The locks whose `with` block a thread is inside: call[t].held lists them,
\* outermost first, from the moment the mutex is taken until release() returns.
Holding(t) == {call[t].held[i] : i \in 1..Len(call[t].held)}

\* The lock of the innermost `with` block a thread is inside.
Innermost(t) == call[t].held[Len(call[t].held)]

\* Where a thread goes when __exit__ of its innermost `with` block has
\* returned: a return or raise inside a nested block leaves the outer block
\* too; otherwise the method goes on to the next lock it wants, or is over.
AfterExit(c) ==
    IF Len(c.held) > 1 THEN "release"
    ELSE IF c.want # "none" THEN "acquire"
    ELSE "idle"

\* The call record after that __exit__.
Exited(c) ==
    IF AfterExit(c) = "idle" THEN NoCall
    ELSE [c EXCEPT !.held = SubSeq(@, 1, Len(@) - 1)]

\* A thread enters Bank.add_customer and reaches `with self.locks.customers_lock`.
CallAddCustomer(t) ==
    /\ pc[t] = "idle"
    /\ customer_seq + AddsInFlight < MaxCustomers
    /\ \E e \in Emails :
          call' = [call EXCEPT ![t] = [NoCall EXCEPT !.op = "add_customer",
                                                     !.email = e,
                                                     !.want = "customers_lock"]]
    /\ pc' = [pc EXCEPT ![t] = "acquire"]
    /\ last' = NoLast
    /\ UNCHANGED <<customers, accounts, transaction_history, locks, customer_seq,
                   account_seq>>
    /\ UNCHANGED outsideLedger

\* A thread enters Bank.delete_customer and reaches `with self.locks.customers_lock`.
CallDeleteCustomer(t) ==
    /\ pc[t] = "idle"
    /\ \E i \in 1..MaxCustomers :
          call' = [call EXCEPT ![t] = [NoCall EXCEPT !.op = "delete_customer",
                                                     !.customer = CustomerIds[i],
                                                     !.want = "customers_lock"]]
    /\ pc' = [pc EXCEPT ![t] = "acquire"]
    /\ last' = NoLast
    /\ UNCHANGED <<customers, accounts, transaction_history, locks, customer_seq,
                   account_seq>>
    /\ UNCHANGED outsideLedger

\* A thread enters Bank.add_account and reaches the first
\* `with self.locks.customers_lock`.
CallAddAccount(t) ==
    /\ pc[t] = "idle"
    /\ account_seq + AccountsInFlight < MaxAccounts
    /\ \E i \in 1..MaxCustomers, b \in InitialBalances, n \in {"1234", "12"} :
          call' = [call EXCEPT ![t] = [NoCall EXCEPT !.op = "add_account",
                                                     !.customer = CustomerIds[i],
                                                     !.amount = b, !.nip = n,
                                                     !.want = "customers_lock"]]
    /\ pc' = [pc EXCEPT ![t] = "acquire"]
    /\ last' = NoLast
    /\ UNCHANGED <<customers, accounts, transaction_history, locks, customer_seq,
                   account_seq>>
    /\ UNCHANGED outsideLedger

\* TrackedLock.acquire: self._lock.acquire(blocking)
Acquire(t) ==
    /\ pc[t] = "acquire"
    /\ CanLock(call[t].want)
    /\ locks' = [locks EXCEPT ![call[t].want].held = TRUE]
    /\ call' = [call EXCEPT ![t].held = Append(@, call[t].want),
                            ![t].want = "none"]
    /\ pc' = [pc EXCEPT ![t] = "flag"]
    /\ last' = NoLast
    /\ UNCHANGED <<customers, accounts, transaction_history, customer_seq,
                   account_seq>>
    /\ UNCHANGED outsideLedger

\* TrackedLock.acquire: self._owner_pid = thread_id; self._is_acquired = True
Flag(t) ==
    /\ pc[t] = "flag"
    /\ locks' = [locks EXCEPT ![Innermost(t)].owner = t,
                              ![Innermost(t)].is_acquired = TRUE]
    /\ pc' = [pc EXCEPT ![t] = "body"]
    /\ last' = NoLast
    /\ UNCHANGED <<customers, accounts, transaction_history, customer_seq,
                   account_seq, call>>
    /\ UNCHANGED outsideLedger

\* Bank.add_customer: the uniqueness test; a registered email raises ValueError,
\* which leaves the with block.
AddCustomerCheck(t) ==
    /\ pc[t] = "body"
    /\ call[t].op = "add_customer"
    /\ IF email_registered(customers, call[t].email)
       THEN /\ last' = Decided(call[t], FALSE, "duplicate")
            /\ pc' = [pc EXCEPT ![t] = "release"]
       ELSE /\ last' = NoLast
            /\ pc' = [pc EXCEPT ![t] = "insert"]
    /\ UNCHANGED <<customers, accounts, transaction_history, locks, customer_seq,
                   account_seq, call>>
    /\ UNCHANGED outsideLedger

\* Bank.add_customer: customer = Customer(name, email);
\* self.customers[customer.customer_id] = customer
AddCustomerInsert(t) ==
    /\ pc[t] = "insert"
    /\ LET id == CustomerIds[customer_seq + 1]
       IN  customers' = (id :> Customer(id, call[t].email)) @@ customers
    /\ customer_seq' = customer_seq + 1
    /\ last' = Decided(call[t], TRUE, "ok")
    /\ pc' = [pc EXCEPT ![t] = "release"]
    /\ UNCHANGED <<accounts, transaction_history, locks, account_seq, call>>
    /\ UNCHANGED outsideLedger

\* Bank.delete_customer: the body of the with block.
DeleteCustomer(t) ==
    /\ pc[t] = "body"
    /\ call[t].op = "delete_customer"
    /\ IF call[t].customer \in DOMAIN customers
       THEN /\ customers' = [c \in DOMAIN customers \ {call[t].customer} |->
                                customers[c]]
            /\ last' = Decided(call[t], TRUE, "ok")
       ELSE /\ customers' = customers
            /\ last' = Decided(call[t], FALSE, "missing")
    /\ pc' = [pc EXCEPT ![t] = "release"]
    /\ UNCHANGED <<accounts, transaction_history, locks, customer_seq, account_seq,
                   call>>
    /\ UNCHANGED outsideLedger

\* Bank.add_account, under the first customers_lock: a missing customer raises
\* ValueError; otherwise the block ends and the method goes on to accounts_lock.
AddAccountCheck(t) ==
    /\ pc[t] = "body"
    /\ call[t].op = "add_account"
    /\ call[t].held = <<"customers_lock">>
    /\ IF call[t].customer \notin DOMAIN customers
       THEN /\ last' = Decided(call[t], FALSE, "missing")
            /\ call' = call
       ELSE /\ last' = NoLast
            /\ call' = [call EXCEPT ![t].want = "accounts_lock"]
    /\ pc' = [pc EXCEPT ![t] = "release"]
    /\ UNCHANGED <<customers, accounts, transaction_history, locks, customer_seq,
                   account_seq>>
    /\ UNCHANGED outsideLedger

\* Bank.add_account, under accounts_lock: account = Account(...) (an invalid
\* NIP raises ValueError); self.accounts[account.account_number] = account;
\* then, still inside the block, `with self.locks.customers_lock`.
AddAccountCreate(t) ==
    /\ pc[t] = "body"
    /\ call[t].op = "add_account"
    /\ call[t].held = <<"accounts_lock">>
    /\ IF ~valid_nip_format(call[t].nip)
       THEN /\ last' = Decided(call[t], FALSE, "nip")
            /\ pc' = [pc EXCEPT ![t] = "release"]
            /\ UNCHANGED <<accounts, account_seq, call>>
       ELSE LET number == AccountNumbers[account_seq + 1]
            IN  /\ accounts' = (number :> Account(call[t].customer, call[t].amount,
                                                  call[t].nip)) @@ accounts
                /\ account_seq' = account_seq + 1
                /\ call' = [call EXCEPT ![t].created = number,
                                        ![t].want = "customers_lock"]
                /\ pc' = [pc EXCEPT ![t] = "acquire"]
                /\ last' = NoLast
    /\ UNCHANGED <<customers, transaction_history, locks, customer_seq>>
    /\ UNCHANGED outsideLedger

\* Bank.add_account, under accounts_lock and the second customers_lock:
\* self.customers[customer_id].link_account(account); return account.  A
\* customer deleted since the check makes the subscript raise KeyError.
AddAccountLink(t) ==
    /\ pc[t] = "body"
    /\ call[t].op = "add_account"
    /\ call[t].held = <<"accounts_lock", "customers_lock">>
    /\ IF call[t].customer \in DOMAIN customers
       THEN /\ customers' = [customers EXCEPT ![call[t].customer] =
                                link_account(@, call[t].created,
                                             accounts[call[t].created])]
            /\ last' = Decided(call[t], TRUE, "ok")
       ELSE /\ customers' = customers
            /\ last' = Decided(call[t], FALSE, "KeyError")
    /\ pc' = [pc EXCEPT ![t] = "release"]
    /\ UNCHANGED <<accounts, transaction_history, locks, customer_seq, account_seq,
                   call>>
    /\ UNCHANGED outsideLedger

\* TrackedLock.release: if self._is_acquired:
Release(t) ==
    /\ pc[t] = "release"
    /\ IF locks[Innermost(t)].is_acquired
       THEN /\ pc' = [pc EXCEPT ![t] = "unlock"]
            /\ call' = call
       ELSE /\ pc' = [pc EXCEPT ![t] = AfterExit(call[t])]
            /\ call' = [call EXCEPT ![t] = Exited(call[t])]
    /\ last' = NoLast
    /\ UNCHANGED <<customers, accounts, transaction_history, locks, customer_seq,
                   account_seq>>
    /\ UNCHANGED outsideLedger

\* TrackedLock.release: self._lock.release()
Unlock(t) ==
    /\ pc[t] = "unlock"
    /\ locks[Innermost(t)].held
    /\ locks' = [locks EXCEPT ![Innermost(t)].held = FALSE]
    /\ pc' = [pc EXCEPT ![t] = "clear"]
    /\ last' = NoLast
    /\ UNCHANGED <<customers, accounts, transaction_history, customer_seq,
                   account_seq, call>>
    /\ UNCHANGED outsideLedger

\* TrackedLock.release: self._owner_pid = -1; self._is_acquired = False;
\* then __exit__ returns.
Clear(t) ==
    /\ pc[t] = "clear"
    /\ locks' = [locks EXCEPT ![Innermost(t)].owner = NoThread,
                              ![Innermost(t)].is_acquired = FALSE]
    /\ pc' = [pc EXCEPT ![t] = AfterExit(call[t])]
    /\ call' = [call EXCEPT ![t] = Exited(call[t])]
    /\ last' = NoLast
    /\ UNCHANGED <<customers, accounts, transaction_history, customer_seq,
                   account_seq>>
    /\ UNCHANGED outsideLedger

ThreadsNext ==
    \E t \in Threads :
        \/ CallAddCustomer(t)
        \/ CallDeleteCustomer(t)
        \/ CallAddAccount(t)
        \/ Acquire(t)
        \/ Flag(t)
        \/ AddCustomerCheck(t)
        \/ AddCustomerInsert(t)
        \/ DeleteCustomer(t)
        \/ AddAccountCheck(t)
        \/ AddAccountCreate(t)
        \/ AddAccountLink(t)
        \/ Release(t)
        \/ Unlock(t)
        \/ Clear(t)

SpecThreads == Init /\ [][ThreadsNext]_vars

\* C6: no two registered customers share an email, whatever the interleaving
\* of add_customer calls; an add_customer with a registered email fails and
\* adds no customer.
C6_UniqueEmails ==
    /\ \A c1 \in DOMAIN customers, c2 \in DOMAIN customers :
          customers[c1].email = customers[c2].email => c1 = c2
    /\ (last.op = "add_customer" /\ ~last.ok) =>
          /\ customers = last.customers
          /\ email_registered(customers, last.call.email)
    /\ (last.op = "add_customer" /\ last.ok) =>
          ~email_registered(last.customers, last.call.email)

\* An add_customer failed on a duplicate email while the other thread is
\* still inside the release of customers_lock.
C6_Witness ==
    /\ last.op = "add_customer" /\ ~last.ok /\ last.why = "duplicate"
    /\ \E t \in Threads : pc[t] = "clear"
    /\ Cardinality(DOMAIN customers) >= 1

\* C11: no Bank operation requests a lock while holding one that comes later
\* in the order customers -> accounts -> cards: customers_lock is never
\* requested while holding accounts_lock or cards_lock, and accounts_lock is
\* never requested while holding cards_lock.
C11_LockOrder ==
    \A t \in Threads :
        pc[t] = "acquire" =>
            /\ call[t].want = "customers_lock" =>
                  Holding(t) \cap {"accounts_lock", "cards_lock"} = {}
            /\ call[t].want = "accounts_lock" => "cards_lock" \notin Holding(t)

\* C12: whenever no operation is inside a critical section of a lock, the
\* mutex of that lock is free: every lock an operation acquired was released
\* when the operation left the critical section.
C12_LocksReleased ==
    \A l \in LockNames :
        (\A t \in Threads : l \notin Holding(t)) => ~locks[l].held

\* C24: no operation waits forever for a lock: whenever a thread waits in
\* acquire for a lock whose mutex is taken, some thread is inside a critical
\* section of that lock and will release it (only the __exit__ of such a
\* block releases the mutex, so without one the wait never ends and the
\* operation never returns).
C24_NoOperationWaitsForever ==
    \A t \in Threads :
        (pc[t] = "acquire" /\ locks[call[t].want].held) =>
            \E u \in Threads : call[t].want \in Holding(u)

\* C16: when add_account fails, the account registry holds no account created
\* by that call.
C16_FailedAddAccountLeavesNoAccount ==
    (last.op = "add_account" /\ ~last.ok) =>
        last.call.created \notin DOMAIN accounts

(***************************************************************************)
(* Python float arithmetic (IEEE-754 binary64, round to nearest, ties to   *)
(* even), used by core/credit_card.py.  Natural numbers of any size are    *)
(* sequences of 15-bit limbs, least significant first, without high zero   *)
(* limbs (zero is the empty sequence).  The values that occur stay far     *)
(* from the overflow and subnormal ranges.                                 *)
(***************************************************************************)

\* Python float has 53 significant bits.
MantissaBits == 53

LimbBits == 15
Base == 2^LimbBits

Max(x, y) == IF x >= y THEN x ELSE y
Min(x, y) == IF x <= y THEN x ELSE y

RECURSIVE LimbsOf(_)
LimbsOf(n) == IF n = 0 THEN <<>> ELSE <<n % Base>> \o LimbsOf(n \div Base)

RECURSIVE Trim(_)
Trim(b) == IF b = <<>> \/ b[Len(b)] # 0 THEN b ELSE Trim(SubSeq(b, 1, Len(b) - 1))

Limb(b, i) == IF i >= 1 /\ i <= Len(b) THEN b[i] ELSE 0

RECURSIVE ZeroLimbs(_)
ZeroLimbs(k) == IF k = 0 THEN <<>> ELSE <<0>> \o ZeroLimbs(k - 1)

RECURSIVE AddFrom(_, _, _, _)
AddFrom(a, b, i, c) ==
    IF i > Max(Len(a), Len(b))
    THEN (IF c = 0 THEN <<>> ELSE <<c>>)
    ELSE LET s == Limb(a, i) + Limb(b, i) + c
         IN  <<s % Base>> \o AddFrom(a, b, i + 1, s \div Base)

\* a + b
AddLimbs(a, b) == AddFrom(a, b, 1, 0)

RECURSIVE SubFrom(_, _, _, _)
SubFrom(a, b, i, c) ==
    IF i > Len(a) THEN <<>>
    ELSE LET s == Limb(a, i) - Limb(b, i) - c
         IN  <<(s + Base) % Base>> \o SubFrom(a, b, i + 1, IF s < 0 THEN 1 ELSE 0)

\* a - b, for a >= b
SubLimbs(a, b) == Trim(SubFrom(a, b, 1, 0))

RECURSIVE CmpFrom(_, _, _)
CmpFrom(a, b, i) ==
    IF i = 0 THEN 0
    ELSE IF a[i] # b[i] THEN (IF a[i] > b[i] THEN 1 ELSE -1)
    ELSE CmpFrom(a, b, i - 1)

\* -1, 0, 1 as a < b, a = b, a > b
CmpLimbs(a, b) ==
    IF Len(a) # Len(b) THEN (IF Len(a) > Len(b) THEN 1 ELSE -1)
    ELSE CmpFrom(a, b, Len(a))

RECURSIVE MulSmallFrom(_, _, _, _)
MulSmallFrom(b, k, i, c) ==
    IF i > Len(b)
    THEN (IF c = 0 THEN <<>> ELSE <<c>>)
    ELSE LET p == b[i] * k + c
         IN  <<p % Base>> \o MulSmallFrom(b, k, i + 1, p \div Base)

\* b * k, for 0 <= k < Base
MulSmall(b, k) == IF k = 0 THEN <<>> ELSE MulSmallFrom(b, k, 1, 0)

RECURSIVE MulFrom(_, _, _)
MulFrom(a, b, i) ==
    IF i > Len(a) THEN <<>>
    ELSE AddLimbs(IF MulSmall(b, a[i]) = <<>> THEN <<>>
                  ELSE ZeroLimbs(i - 1) \o MulSmall(b, a[i]),
                  MulFrom(a, b, i + 1))

\* a * b
MulLimbs(a, b) == MulFrom(a, b, 1)

RECURSIVE DivFrom(_, _, _, _)
DivFrom(a, d, i, rem) ==
    IF i = 0 THEN [q |-> <<>>, rem |-> rem]
    ELSE LET r == rem * Base + a[i]
             rest == DivFrom(a, d, i - 1, r % d)
         IN  [q |-> rest.q \o <<r \div d>>, rem |-> rest.rem]

\* floor(a / d) and a mod d, for 0 < d <= Base
DivSmall(a, d) ==
    LET r == DivFrom(a, d, Len(a), 0) IN [q |-> Trim(r.q), rem |-> r.rem]

\* a * 2^s
ShiftLeft(a, s) ==
    IF a = <<>> THEN <<>>
    ELSE ZeroLimbs(s \div LimbBits) \o MulSmall(a, 2^(s % LimbBits))

\* floor(a / 2^s)
ShiftRight(a, s) ==
    IF s \div LimbBits >= Len(a) THEN <<>>
    ELSE DivSmall(SubSeq(a, s \div LimbBits + 1, Len(a)), 2^(s % LimbBits)).q

\* a mod 2^s = 0
LowBitsZero(a, s) ==
    /\ \A i \in 1..Min(s \div LimbBits, Len(a)) : a[i] = 0
    /\ Limb(a, s \div LimbBits + 1) % 2^(s % LimbBits) = 0

\* bit k of a, the lowest bit being bit 1
BitAt(a, k) == (Limb(a, (k - 1) \div LimbBits + 1) \div 2^((k - 1) % LimbBits)) % 2

\* the number of bits of a
BitLen(a) ==
    IF a = <<>> THEN 0
    ELSE (Len(a) - 1) * LimbBits
           + (CHOOSE k \in 1..LimbBits : 2^(k - 1) <= a[Len(a)] /\ a[Len(a)] < 2^k)

\* the number of low zero bits of a # 0
LowZeros(a) == CHOOSE z \in 0..BitLen(a) : BitAt(a, z + 1) = 1 /\ LowBitsZero(a, z)

\* A binary64 value is (-1)^neg * m * 2^e with m odd, or Zero.
Zero == [neg |-> FALSE, m |-> <<>>, e |-> 0]

Canon(neg, a, e) ==
    IF a = <<>> THEN Zero
    ELSE [neg |-> neg, m |-> ShiftRight(a, LowZeros(a)), e |-> e + LowZeros(a)]

\* (-1)^neg * a * 2^e rounded to the nearest binary64 value, ties to even.
Round(neg, a, e) ==
    IF BitLen(a) <= MantissaBits THEN Canon(neg, a, e)
    ELSE LET k == BitLen(a) - MantissaBits
             kept == ShiftRight(a, k)
             up == BitAt(a, k) = 1 /\ (~LowBitsZero(a, k - 1) \/ kept[1] % 2 = 1)
         IN  Canon(neg, IF up THEN AddLimbs(kept, <<1>>) ELSE kept, e + k)

\* float(n) for an int n >= 0
FromInt(n) == Canon(FALSE, LimbsOf(n), 0)

\* The float literal that reads n/d in decimal (0.05 is 5/100): the binary64
\* value nearest to n/d.
FromRatio(n, d) ==
    LET r == DivSmall(ZeroLimbs(5) \o LimbsOf(n), d)
    IN  Round(FALSE, AddLimbs(MulSmall(r.q, 2), IF r.rem = 0 THEN <<>> ELSE <<1>>),
              -(5 * LimbBits + 1))

FNeg(x) == IF x.m = <<>> THEN x ELSE [x EXCEPT !.neg = ~x.neg]

\* x + y
FAdd(x, y) ==
    LET e == Min(x.e, y.e)
        mx == ShiftLeft(x.m, x.e - e)
        my == ShiftLeft(y.m, y.e - e)
        c == CmpLimbs(mx, my)
    IN  IF x.m = <<>> THEN y
        ELSE IF y.m = <<>> THEN x
        ELSE IF x.neg = y.neg THEN Round(x.neg, AddLimbs(mx, my), e)
        ELSE IF c = 0 THEN Zero
        ELSE IF c > 0 THEN Round(x.neg, SubLimbs(mx, my), e)
        ELSE Round(y.neg, SubLimbs(my, mx), e)

\* x - y
FSub(x, y) == FAdd(x, FNeg(y))

\* x * y
FMul(x, y) ==
    IF x.m = <<>> \/ y.m = <<>> THEN Zero
    ELSE Round(x.neg # y.neg, MulLimbs(x.m, y.m), x.e + y.e)

\* x < y
FLess(x, y) == FSub(x, y).neg

\* min(x, y)
FMin(x, y) == IF FLess(y, x) THEN y ELSE x

(***************************************************************************)
(* core/credit_card.py and core/card.py.  Specification SpecCard: the      *)
(* methods of one CreditCard whose fields are as CreditCard.__init__ sets  *)
(* them, called one at a time.                                             *)
(***************************************************************************)
MaxCardOps == 4

CardTypes == {"NORMAL", "GOLD", "PLATINUM"}
PurchaseAmounts == {1234, 60000}
PaymentAmounts == {0, 500}

\* CreditCard._BENEFITS: credit_limit and interest_rate (in hundredths, as
\* the literals 0.05, 0.04, 0.03 are written).
credit_limit_of(card_type) ==
    CASE card_type = "NORMAL" -> 10000
      [] card_type = "GOLD" -> 20000
      [] card_type = "PLATINUM" -> 50000

interest_rate_of(card_type) ==
    CASE card_type = "NORMAL" -> FromRatio(5, 100)
      [] card_type = "GOLD" -> FromRatio(4, 100)
      [] card_type = "PLATINUM" -> FromRatio(3, 100)

\* CreditCard.__init__, the fields it assigns; Card.__init__ starts the card
\* inactive.
CreditCard(card_type) ==
    [type |-> card_type,
     active |-> FALSE,
     credit_limit |-> FromInt(credit_limit_of(card_type)),
     interest_rate |-> interest_rate_of(card_type),
     outstanding_balance |-> FromInt(0),
     available_credit |-> FromInt(credit_limit_of(card_type))]

\* Card.is_valid; the expiration date lies 5 years after construction.
is_valid(c) == c.active

\* CreditCard.make_purchase; a raise leaves the card as it was.
make_purchase(c, amount) ==
    IF ~is_valid(c) THEN c
    ELSE IF FLess(c.available_credit, amount) THEN c
    ELSE [c EXCEPT !.outstanding_balance = FAdd(@, amount),
                   !.available_credit = FSub(@, amount)]

\* CreditCard.make_payment
make_payment(c, amount) ==
    IF ~FLess(Zero, amount) THEN c
    ELSE LET payment == FMin(amount, c.outstanding_balance)
         IN  [c EXCEPT !.outstanding_balance = FSub(@, payment),
                       !.available_credit = FAdd(@, payment)]

\* CreditCard.calculate_interest
calculate_interest(c) == FMul(c.outstanding_balance, c.interest_rate)

\* CreditCard.apply_interest
apply_interest(c) ==
    LET interest == calculate_interest(c)
    IN  [c EXCEPT !.outstanding_balance = FAdd(@, interest),
                  !.available_credit = FSub(@, interest)]

CardInit ==
    /\ customers = <<>>
    /\ accounts = <<>>
    /\ transaction_history = <<>>
    /\ locks = [l \in LockNames |-> FreeLock]
    /\ customer_seq = 0
    /\ account_seq = 0
    /\ call = [t \in Threads |-> NoCall]
    /\ pc = [t \in Threads |-> "idle"]
    /\ last = NoLast
    /\ card \in {CreditCard(t) : t \in CardTypes}
    /\ card_ops = 0
    /\ priority_queue = <<>>
    /\ active_turns = {}
    /\ turn_seq = 0
    /\ got = NoGot
    /\ turn_status = <<>>
    /\ turn_ops = <<>>
    /\ dispatcher = "loop"
    /\ dispatching = <<>>
    /\ raised = "none"
    /\ stop_requested = FALSE
    /\ made = NoMade
    /\ turn_fields = <<>>
    /\ ran = NoRan
    /\ prepared = NoPrepared
    /\ admission = NoAdmission
    /\ TurnIdInit

\* Card.activate_card
ActivateCard ==
    /\ ~card.active
    /\ card' = [card EXCEPT !.active = TRUE]
    /\ UNCHANGED card_ops
    /\ UNCHANGED outsideCard

MakePurchase ==
    /\ card_ops < MaxCardOps
    /\ \E a \in PurchaseAmounts : card' = make_purchase(card, FromInt(a))
    /\ card_ops' = card_ops + 1
    /\ UNCHANGED outsideCard

MakePayment ==
    /\ card_ops < MaxCardOps
    /\ \E a \in PaymentAmounts : card' = make_payment(card, FromInt(a))
    /\ card_ops' = card_ops + 1
    /\ UNCHANGED outsideCard

ApplyInterest ==
    /\ card_ops < MaxCardOps
    /\ card' = apply_interest(card)
    /\ card_ops' = card_ops + 1
    /\ UNCHANGED outsideCard

CardNext ==
    \/ ActivateCard
    \/ MakePurchase
    \/ MakePayment
    \/ ApplyInterest

SpecCard == CardInit /\ [][CardNext]_vars

MaxTurns == 4
MaxTime == 2

Priorities == {1, 2, 3}

\* Turn.__init__ with the given priority and created_at; turn_id is fresh.
Turn(turn_id, priority, created_at) ==
    [turn_id |-> turn_id, priority |-> priority, created_at |-> created_at]

\* Turn.__lt__
turn_lt(self, other) ==
    IF self.priority = other.priority
    THEN self.created_at < other.created_at
    ELSE self.priority < other.priority

\* A comparison of heap entries that looks at the priority only.
entry_lt_priority_only(x, y) == x[1] < y[1]

\* x < y for the tuples (turn.priority, turn.created_at, turn): the first
\* position where they differ decides; two Turns differ unless they are the
\* same object.
entry_lt(x, y) ==
    IF x[1] # y[1] THEN x[1] < y[1]
    ELSE IF x[2] # y[2] THEN x[2] < y[2]
    ELSE IF x[3].turn_id # y[3].turn_id THEN turn_lt(x[3], y[3])
    ELSE FALSE

\* heapq._siftdown(heap, startpos, pos), the loop for newitem from pos on.
RECURSIVE siftdown_loop(_, _, _, _)
siftdown_loop(heap, startpos, pos, newitem) ==
    IF pos > startpos /\ entry_lt(newitem, heap[(pos - 1) \div 2 + 1])
    THEN siftdown_loop([heap EXCEPT ![pos + 1] = heap[(pos - 1) \div 2 + 1]],
                       startpos, (pos - 1) \div 2, newitem)
    ELSE [heap EXCEPT ![pos + 1] = newitem]

siftdown(heap, startpos, pos) == siftdown_loop(heap, startpos, pos, heap[pos + 1])

\* heapq._siftup(heap, pos), the loop that bubbles the smaller child up.
RECURSIVE siftup_loop(_, _, _, _)
siftup_loop(heap, startpos, pos, newitem) ==
    LET childpos == 2 * pos + 1
        rightpos == childpos + 1
        smaller == IF rightpos < Len(heap)
                      /\ ~entry_lt(heap[childpos + 1], heap[rightpos + 1])
                   THEN rightpos ELSE childpos
    IN  IF childpos < Len(heap)
        THEN siftup_loop([heap EXCEPT ![pos + 1] = heap[smaller + 1]],
                         startpos, smaller, newitem)
        ELSE siftdown([heap EXCEPT ![pos + 1] = newitem], startpos, pos)

siftup(heap, pos) == siftup_loop(heap, pos, pos, heap[pos + 1])

\* heapq.heappush
heappush(heap, item) == siftdown(Append(heap, item), 0, Len(heap))

\* heapq.heappop on a non-empty heap: the item returned and the heap left.
heappop(heap) ==
    LET lastelt == heap[Len(heap)]
        rest == SubSeq(heap, 1, Len(heap) - 1)
    IN  IF rest = <<>>
        THEN [item |-> lastelt, heap |-> rest]
        ELSE [item |-> rest[1], heap |-> siftup([rest EXCEPT ![1] = lastelt], 0)]

\* heapq.heapify: _siftup at n//2 - 1, ..., 0
RECURSIVE heapify_from(_, _)
heapify_from(x, i) == IF i < 0 THEN x ELSE heapify_from(siftup(x, i), i - 1)

heapify(x) == heapify_from(x, Len(x) \div 2 - 1)

\* The list comprehension of cleanup_completed_turns.
RECURSIVE not_active(_, _)
not_active(queue, active) ==
    IF queue = <<>> THEN <<>>
    ELSE (IF queue[1][3].turn_id \in active THEN <<>> ELSE <<queue[1]>>)
            \o not_active(Tail(queue), active)

TurnsInit ==
    /\ customers = <<>>
    /\ accounts = <<>>
    /\ transaction_history = <<>>
    /\ locks = [l \in LockNames |-> FreeLock]
    /\ customer_seq = 0
    /\ account_seq = 0
    /\ call = [t \in Threads |-> NoCall]
    /\ pc = [t \in Threads |-> "idle"]
    /\ last = NoLast
    /\ card = NoCard
    /\ card_ops = 0
    /\ priority_queue = <<>>
    /\ active_turns = {}
    /\ turn_seq = 0
    /\ got = NoGot
    /\ turn_status = <<>>
    /\ turn_ops = <<>>
    /\ dispatcher = "loop"
    /\ dispatching = <<>>
    /\ raised = "none"
    /\ stop_requested = FALSE
    /\ made = NoMade
    /\ turn_fields = <<>>
    /\ ran = NoRan
    /\ prepared = NoPrepared
    /\ admission = NoAdmission
    /\ TurnIdInit

\* TurnManager.add_turn, for a newly constructed Turn, while fewer than limit
\* Turns have been constructed
add_new_turn(limit) ==
    /\ turn_seq < limit
    /\ \E p \in Priorities, at \in 1..MaxTime :
          LET turn == Turn(turn_seq + 1, p, at)
          IN  priority_queue' = heappush(priority_queue, <<p, at, turn>>)
    /\ turn_seq' = turn_seq + 1
    /\ got' = NoGot
    /\ UNCHANGED active_turns
    /\ UNCHANGED outsideTurns

AddTurn == add_new_turn(MaxTurns)

\* TurnManager.get_next_turn
GetNextTurn ==
    /\ IF priority_queue = <<>>
       THEN /\ got' = [called |-> TRUE, turn |-> <<>>, queue |-> <<>>,
                       update |-> <<>>]
            /\ UNCHANGED <<priority_queue, active_turns>>
       ELSE LET r == heappop(priority_queue)
            IN  /\ priority_queue' = r.heap
                /\ active_turns' = active_turns \cup {r.item[3].turn_id}
                /\ got' = [called |-> TRUE, turn |-> <<r.item[3]>>,
                           queue |-> priority_queue, update |-> <<>>]
    /\ UNCHANGED turn_seq
    /\ UNCHANGED outsideTurns

\* TurnManager.add_turn, for the Turn that get_next_turn has just returned:
\* the caller puts it back in the queue
ReAddTurn ==
    /\ got.called /\ got.turn # <<>>
    /\ LET turn == got.turn[1]
       IN  priority_queue' =
               heappush(priority_queue, <<turn.priority, turn.created_at, turn>>)
    /\ got' = NoGot
    /\ UNCHANGED <<active_turns, turn_seq>>
    /\ UNCHANGED outsideTurns

TurnStatuses == {"PENDING", "IN_PROGRESS", "COMPLETED", "FAILED"}

\* update_turn_status dropping the turn_id whatever the status
update_turn_status_any_status(active, turn_id, status) ==
    IF turn_id \in active THEN active \ {turn_id} ELSE active

\* TurnManager.update_turn_status: the active set it leaves
update_turn_status(active, turn_id, status) ==
    IF turn_id \in active /\ status = "COMPLETED"
    THEN active \ {turn_id}
    ELSE active

\* TurnManager.update_turn_status
UpdateTurnStatus ==
    /\ \E turn_id \in 1..MaxTurns, status \in TurnStatuses :
          active_turns' = update_turn_status(active_turns, turn_id, status)
    /\ got' = NoGot
    /\ UNCHANGED <<priority_queue, turn_seq>>
    /\ UNCHANGED outsideTurns

\* TurnManager.cleanup_completed_turns
CleanupCompletedTurns ==
    /\ priority_queue' = heapify(not_active(priority_queue, active_turns))
    /\ got' = NoGot
    /\ UNCHANGED <<active_turns, turn_seq>>
    /\ UNCHANGED outsideTurns

TurnsNext ==
    \/ AddTurn
    \/ GetNextTurn
    \/ UpdateTurnStatus
    \/ CleanupCompletedTurns

SpecTurns == TurnsInit /\ [][TurnsNext]_vars

\* C8: get_next_turn returns, among the Turns pending when it is called, one
\* with the smallest priority number, and among those one with the earliest
\* created_at; with nothing pending it returns None.
C8_PriorityOrder ==
    got.called =>
        IF got.queue = <<>> THEN got.turn = <<>>
        ELSE /\ got.turn # <<>>
             /\ \E i \in 1..Len(got.queue) : got.queue[i][3] = got.turn[1]
             /\ \A i \in 1..Len(got.queue) :
                   \/ got.turn[1].priority < got.queue[i][3].priority
                   \/ /\ got.turn[1].priority = got.queue[i][3].priority
                      /\ got.turn[1].created_at <= got.queue[i][3].created_at

\* Turns of priority 3, 1, 2, 1 were added in that order, the first
\* priority-1 Turn was dequeued, and now the second priority-1 Turn is
\* returned ahead of the priority-2 and priority-3 Turns added before it.
C8_Witness ==
    /\ got.called /\ got.turn # <<>>
    /\ got.turn[1] = Turn(4, 1, 2)
    /\ 2 \in active_turns
    /\ {got.queue[i][3] : i \in 1..Len(got.queue)}
          = {Turn(1, 3, 1), Turn(3, 2, 1), Turn(4, 1, 2)}

(***************************************************************************)
(* Specification SpecTurnRequeue: the TurnManager used by a caller that    *)
(* may put a Turn it has dequeued back in the queue, with the arguments of *)
(* each update_turn_status call kept in got.update.                        *)
(***************************************************************************)
MaxRequeueTurns == 2

SubmitTurn == add_new_turn(MaxRequeueTurns)

\* TurnManager.update_turn_status, keeping its arguments
ReportTurnStatus ==
    /\ \E turn_id \in 1..MaxRequeueTurns, status \in TurnStatuses :
          /\ active_turns' = update_turn_status(active_turns, turn_id, status)
          /\ got' = [called |-> FALSE, turn |-> <<>>, queue |-> <<>>,
                     update |-> <<turn_id, status>>]
    /\ UNCHANGED <<priority_queue, turn_seq>>
    /\ UNCHANGED outsideTurns

TurnRequeueNext ==
    \/ SubmitTurn
    \/ GetNextTurn
    \/ ReAddTurn
    \/ ReportTurnStatus
    \/ CleanupCompletedTurns

SpecTurnRequeue == TurnsInit /\ [][TurnRequeueNext]_vars

(***************************************************************************)
(* core/turn.py, Turn._generate_turn_id.  Specification SpecTurnIds:       *)
(* threads construct Turns without an explicit turn_id.  The method takes  *)
(* no lock; each access to Turn._prefix_counters is one step: the read     *)
(* that formats the id, then the read and the write of `+= 1`.             *)
(***************************************************************************)
MaxCreated == 3

outsideTurnIds == <<ledgerVars, cardVars, turnVars, dispatcherVars,
                    turnObjectVars>>

\* Turn.__init__ up to the call of _generate_turn_id:
\* prefix = self._priority_to_prefix(self.priority)
BeginTurnId(t) ==
    /\ creating[t].pc = "idle"
    /\ Len(issued) + Cardinality({u \in Threads : creating[u].pc # "idle"})
          < MaxCreated
    /\ \E priority \in Priorities :
          creating' = [creating EXCEPT ![t] =
              [pc |-> "format", prefix |-> priority_to_prefix(priority),
               turn_id |-> <<>>, loaded |-> 0]]
    /\ UNCHANGED <<prefix_counters, issued>>
    /\ UNCHANGED outsideTurnIds

\* turn_id = f"{prefix}{Turn._prefix_counters[prefix]:03}"
FormatTurnId(t) ==
    /\ creating[t].pc = "format"
    /\ creating' = [creating EXCEPT ![t].pc = "load",
              ![t].turn_id = <<creating[t].prefix,
                               prefix_counters[creating[t].prefix]>>]
    /\ UNCHANGED <<prefix_counters, issued>>
    /\ UNCHANGED outsideTurnIds

\* Turn._prefix_counters[prefix] += 1: the read
LoadCounter(t) ==
    /\ creating[t].pc = "load"
    /\ creating' = [creating EXCEPT ![t].pc = "store",
              ![t].loaded = prefix_counters[creating[t].prefix]]
    /\ UNCHANGED <<prefix_counters, issued>>
    /\ UNCHANGED outsideTurnIds

\* Turn._prefix_counters[prefix] += 1: the write; return turn_id
StoreCounter(t) ==
    /\ creating[t].pc = "store"
    /\ prefix_counters' = [prefix_counters EXCEPT
              ![creating[t].prefix] = creating[t].loaded + 1]
    /\ issued' = Append(issued, creating[t].turn_id)
    /\ creating' = [creating EXCEPT ![t] = NoCreating]
    /\ UNCHANGED outsideTurnIds

TurnIdsNext ==
    \E t \in Threads :
        \/ BeginTurnId(t)
        \/ FormatTurnId(t)
        \/ LoadCounter(t)
        \/ StoreCounter(t)

SpecTurnIds == Init /\ [][TurnIdsNext]_vars

\* C33: Turns created without an explicit turn_id never share a turn_id, and
\* within each prefix the number strictly increases with each created Turn.
C33_TurnIdsNeverShared ==
    \A i \in 1..Len(issued), j \in 1..Len(issued) :
        (i < j /\ issued[i][1] = issued[j][1]) => issued[i][2] < issued[j][2]

\* C31: the Turn that get_next_turn returns has its turn_id in active_turns; a
\* turn_id leaves active_turns only in a call of update_turn_status for that
\* turn_id with status COMPLETED, and update_turn_status with another status
\* leaves active_turns as it was.
C31_ActiveUntilCompleted ==
    /\ [](got.called /\ got.turn # <<>> =>
              got.turn[1].turn_id \in active_turns)
    /\ [][\A id \in active_turns :
              id \notin active_turns' => got'.update = <<id, "COMPLETED">>]_vars
    /\ [][got'.update # <<>> /\ got'.update[2] # "COMPLETED" =>
              active_turns' = active_turns]_vars

\* update_turn_status was called with FAILED for a Turn that get_next_turn
\* had returned, and the Turn is still active.
C31_Witness ==
    /\ got.update # <<>>
    /\ got.update[2] = "FAILED"
    /\ got.update[1] \in active_turns

\* C39: no Turn is at once in the pending queue and in active_turns.
C39_PendingNeverActive ==
    \A i \in 1..Len(priority_queue) :
        priority_queue[i][3].turn_id \notin active_turns

(***************************************************************************)
(* server/process_dispatcher.py.  Specification SpecDispatcher: clients    *)
(* call assign_turn while one thread runs dispatch_processes.  Each with   *)
(* block on turn_queue_lock is one step.                                   *)
(***************************************************************************)

MaxSubmitted == 3

\* Turn.operations as submitted, each Operation by the name of its
\* OperationType: none, teller operations, an advisor operation, both.
OperationLists == {<<>>, <<"DEPOSIT">>, <<"CREATE_ACCOUNT">>,
                   <<"GET_BALANCE", "DEACTIVATE_CARD">>}

\* Turn.requires_advisor: the advisor-only OperationTypes.
advisor_ops == {"CREATE_ACCOUNT", "CLOSE_ACCOUNT", "ADD_CUSTOMER",
                "DELETE_CUSTOMER", "ISSUE_DEBIT_CARD", "ISSUE_CREDIT_CARD",
                "DEACTIVATE_CARD", "LINK_ACCOUNT"}

\* Turn.requires_advisor
requires_advisor(operations) ==
    \E i \in 1..Len(operations) : operations[i] \in advisor_ops

\* ProcessDispatcher._determine_service_type: `op['type']` subscripts an
\* Operation object, which raises TypeError; with no operation the loop body
\* never runs and the answer is "teller".
determine_service_type(operations) ==
    IF operations # <<>> THEN "TypeError" ELSE "teller"

DispatcherInit ==
    /\ customers = <<>>
    /\ accounts = <<>>
    /\ transaction_history = <<>>
    /\ locks = [l \in LockNames |-> FreeLock]
    /\ customer_seq = 0
    /\ account_seq = 0
    /\ call = [t \in Threads |-> NoCall]
    /\ pc = [t \in Threads |-> "idle"]
    /\ last = NoLast
    /\ card = NoCard
    /\ card_ops = 0
    /\ priority_queue = <<>>
    /\ active_turns = {}
    /\ turn_seq = 0
    /\ got = NoGot
    /\ turn_status = <<>>
    /\ turn_ops = <<>>
    /\ dispatcher = "loop"
    /\ dispatching = <<>>
    /\ raised = "none"
    /\ stop_requested = FALSE
    /\ made = NoMade
    /\ turn_fields = <<>>
    /\ ran = NoRan
    /\ prepared = NoPrepared
    /\ admission = NoAdmission
    /\ TurnIdInit

\* ProcessDispatcher.assign_turn, for a newly constructed Turn: status
\* PENDING, created_at = datetime.now(), later than that of the Turns before.
AssignTurn ==
    /\ turn_seq < MaxSubmitted
    /\ CanLock("turn_queue_lock")
    /\ \E p \in Priorities, ops \in OperationLists :
          LET turn == Turn(turn_seq + 1, p, turn_seq + 1)
          IN  /\ priority_queue' = heappush(priority_queue,
                                           <<p, turn.created_at, turn>>)
              /\ turn_ops' = (turn.turn_id :> ops) @@ turn_ops
              /\ turn_status' = (turn.turn_id :> "PENDING") @@ turn_status
    /\ turn_seq' = turn_seq + 1
    /\ got' = NoGot
    /\ UNCHANGED <<active_turns, dispatcher, dispatching, raised, stop_requested,
                   admission>>
    /\ UNCHANGED outsideDispatcher

\* dispatch_processes: get_next_turn returns None, `continue`
DispatchNothing ==
    /\ dispatcher = "loop"
    /\ CanLock("turn_queue_lock")
    /\ priority_queue = <<>>
    /\ got' = [called |-> TRUE, turn |-> <<>>, queue |-> <<>>,
                       update |-> <<>>]
    /\ UNCHANGED <<priority_queue, active_turns, turn_seq>>
    /\ UNCHANGED dispatcherVars
    /\ UNCHANGED outsideDispatcher

\* dispatch_processes: get_next_turn returns a Turn
DispatchTurn ==
    /\ dispatcher = "loop"
    /\ CanLock("turn_queue_lock")
    /\ priority_queue # <<>>
    /\ LET r == heappop(priority_queue)
       IN  /\ priority_queue' = r.heap
           /\ active_turns' = active_turns \cup {r.item[3].turn_id}
           /\ got' = [called |-> TRUE, turn |-> <<r.item[3]>>,
                      queue |-> priority_queue, update |-> <<>>]
           /\ dispatching' = <<r.item[3]>>
    /\ dispatcher' = "determine"
    /\ UNCHANGED <<turn_seq, turn_status, turn_ops, raised, stop_requested,
                   admission>>
    /\ UNCHANGED outsideDispatcher

\* _assign_handler: service_type = self._determine_service_type(turn.operations);
\* dispatch_processes catches only queue.Empty, so the TypeError ends it.
DetermineServiceType ==
    /\ dispatcher = "determine"
    /\ IF determine_service_type(turn_ops[dispatching[1].turn_id]) = "TypeError"
       THEN dispatcher' = "dead" /\ raised' = "TypeError"
       ELSE dispatcher' = "assign" /\ raised' = raised
    /\ admission' = [called |-> TRUE, turn |-> dispatching[1].turn_id,
                     acquires |-> <<>>,
                     result |-> IF dispatcher' = "dead" THEN "TypeError"
                                ELSE "running"]
    /\ got' = NoGot
    /\ UNCHANGED <<priority_queue, active_turns, turn_seq, turn_status, turn_ops,
                   dispatching, stop_requested>>
    /\ UNCHANGED outsideDispatcher

\* _assign_handler: turn.assign_service_type(service_type); Turn has no such
\* method (it has assign_service), so AttributeError ends dispatch_processes.
AssignServiceType ==
    /\ dispatcher = "assign"
    /\ dispatcher' = "dead"
    /\ raised' = "AttributeError"
    /\ admission' = [admission EXCEPT !.result = "AttributeError"]
    /\ got' = NoGot
    /\ UNCHANGED <<priority_queue, active_turns, turn_seq, turn_status, turn_ops,
                   dispatching, stop_requested>>
    /\ UNCHANGED outsideDispatcher

\* A caller asks the dispatcher to stop, as test_stop_dispatcher does with
\* dispatcher.stop().  ProcessDispatcher has no stop method and no _running
\* flag: the call raises AttributeError in the caller, and dispatch_processes,
\* a `while True`, is told nothing.
Stop ==
    /\ ~stop_requested
    /\ stop_requested' = TRUE
    /\ got' = NoGot
    /\ UNCHANGED <<priority_queue, active_turns, turn_seq, turn_status, turn_ops,
                   dispatcher, dispatching, raised, admission>>
    /\ UNCHANGED outsideDispatcher

\* The steps of the dispatch_processes thread.
DispatcherStep ==
    \/ DispatchNothing
    \/ DispatchTurn
    \/ DetermineServiceType
    \/ AssignServiceType

DispatcherNext ==
    \/ AssignTurn
    \/ Stop
    \/ DispatchNothing
    \/ DispatchTurn
    \/ DetermineServiceType
    \/ AssignServiceType

SpecDispatcher == DispatcherInit /\ [][DispatcherNext]_vars

\* The same with a fair scheduler: the dispatch_processes thread is not
\* held back for ever while it can take a step.
SpecDispatcherFair ==
    DispatcherInit /\ [][DispatcherNext]_vars /\ WF_vars(DispatcherStep)

\* No Turn is ever IN_PROGRESS, COMPLETED or FAILED: nothing the dispatcher
\* reaches writes Turn.status.
EveryTurnStaysPending ==
    \A id \in DOMAIN turn_status : turn_status[id] = "PENDING"

\* C10: under fair scheduling every Turn submitted to the dispatcher
\* eventually reaches status COMPLETED or FAILED.
C10_EveryTurnFinishes ==
    \A id \in 1..MaxSubmitted :
        (id \in DOMAIN turn_status)
            ~> (id \in DOMAIN turn_status /\ turn_status[id] \in {"COMPLETED", "FAILED"})

(***************************************************************************)
(* Specification SpecTurnObject: core/turn.py, the Turn constructor and    *)
(* the methods that write Turn.status, with the two functions of server/   *)
(* that are handed a Turn, run_process and _prepare_operations; all called *)
(* by a client in any order.                                               *)
(***************************************************************************)
MaxTurnObjects == 2

\* The `card` argument of Turn(...): None, a DebitCard or a CreditCard of a
\* CardType.
TurnCards ==
    {NoCard, [type |-> "NORMAL", kind |-> "debit"]}
        \cup {[type |-> t, kind |-> "credit"] : t \in CardTypes}

\* Turn._determine_priority: without a card, 3.  With a card the method
\* builds priority_map, whose literal reads CardType.STANDARD; CardType has
\* the members NORMAL, GOLD and PLATINUM only, so the literal raises
\* AttributeError before any lookup.
determine_priority(c) ==
    IF c = NoCard
    THEN [raised |-> "none", priority |-> 3]
    ELSE [raised |-> "AttributeError", priority |-> 0]

\* Turn.__init__: self.priority = priority or self._determine_priority(card)
init_priority(c, priority) ==
    IF priority # 0
    THEN [raised |-> "none", priority |-> priority]
    ELSE determine_priority(c)

\* What the Turn methods do not touch.
outsideTurnObject == <<ledgerVars, cardVars, priority_queue, active_turns, got,
                       turn_ops, dispatcher, dispatching, raised, stop_requested,
                       admission, turnIdVars>>

\* Turn.__init__
NewTurn ==
    /\ turn_seq < MaxTurnObjects
    /\ \E c \in TurnCards, priority \in {0} \cup Priorities :
          LET r == init_priority(c, priority)
          IN  /\ made' = [called |-> TRUE, card |-> c, priority |-> priority,
                          result |-> r]
              /\ ran' = NoRan
              /\ prepared' = NoPrepared
              /\ IF r.raised # "none"
                 THEN UNCHANGED <<turn_seq, turn_status, turn_fields>>
                 ELSE /\ turn_seq' = turn_seq + 1
                      /\ turn_status' = (turn_seq + 1 :> "PENDING") @@ turn_status
                      /\ turn_fields' =
                            (turn_seq + 1 :> [priority |-> r.priority,
                                              service_type |-> "none",
                                              attended |-> FALSE]) @@ turn_fields
    /\ UNCHANGED outsideTurnObject

\* Turn.assign_service
AssignService ==
    /\ \E id \in DOMAIN turn_status, service_type \in {"TELLER", "ADVISOR"} :
          /\ turn_fields' = [turn_fields EXCEPT ![id].service_type = service_type]
          /\ turn_status' = [turn_status EXCEPT ![id] = "IN_PROGRESS"]
    /\ made' = NoMade
    /\ ran' = NoRan
    /\ prepared' = NoPrepared
    /\ UNCHANGED turn_seq
    /\ UNCHANGED outsideTurnObject

\* Turn.mark_in_progress
MarkInProgress ==
    /\ \E id \in DOMAIN turn_status :
          turn_status' = [turn_status EXCEPT ![id] = "IN_PROGRESS"]
    /\ made' = NoMade
    /\ ran' = NoRan
    /\ prepared' = NoPrepared
    /\ UNCHANGED <<turn_seq, turn_fields>>
    /\ UNCHANGED outsideTurnObject

\* Turn.mark_completed
MarkCompleted ==
    /\ \E id \in DOMAIN turn_status :
          /\ turn_status' = [turn_status EXCEPT ![id] = "COMPLETED"]
          /\ turn_fields' = [turn_fields EXCEPT ![id].attended = TRUE]
    /\ made' = NoMade
    /\ ran' = NoRan
    /\ prepared' = NoPrepared
    /\ UNCHANGED turn_seq
    /\ UNCHANGED outsideTurnObject

\* Turn.mark_failed
MarkFailed ==
    /\ \E id \in DOMAIN turn_status :
          /\ turn_status' = [turn_status EXCEPT ![id] = "FAILED"]
          /\ turn_fields' = [turn_fields EXCEPT ![id].attended = TRUE]
    /\ made' = NoMade
    /\ ran' = NoRan
    /\ prepared' = NoPrepared
    /\ UNCHANGED turn_seq
    /\ UNCHANGED outsideTurnObject

\* What the operations handed to run_process do when called: return True,
\* return False, raise, or (a Teller method the Bank refused) return the text
\* of an error message.
OperationOutcomes == {<<>>, <<"True">>, <<"True", "True">>, <<"True", "False">>,
                      <<"raise", "True">>, <<"Error: ...">>}

\* The methods of Turn that write its status.
turn_methods == {"assign_service", "mark_in_progress", "mark_completed",
                 "mark_failed"}

\* turn.<name>(): the status the call leaves, or AttributeError for a name
\* Turn does not define.
call_turn_method(status, name) ==
    IF name \notin turn_methods
    THEN [raised |-> "AttributeError", status |-> status]
    ELSE [raised |-> "none",
          status |-> IF name = "mark_completed" THEN "COMPLETED"
                     ELSE IF name = "mark_failed" THEN "FAILED"
                     ELSE "IN_PROGRESS"]

\* run_process._execute_operation: op(), or False when op raises.
execute_operation(op) == IF op = "raise" THEN "False" ELSE op

\* bool(value), as all(results) takes it: a non-empty string is true.
truthy(value) == value # "False"

\* run_process: the try block builds Pool(processes=min(len(operations), 3)),
\* which raises ValueError for no operations, collects the results and calls
\* turn.mark_as_attended() if all are true, turn.mark_as_failed() otherwise;
\* `except Exception` then calls turn.mark_as_failed() outside any try.
run_process(status, operations) ==
    LET results == [i \in 1..Len(operations) |-> execute_operation(operations[i])]
        tried == IF operations = <<>>
                 THEN [raised |-> "ValueError", status |-> status]
                 ELSE IF \A i \in 1..Len(results) : truthy(results[i])
                 THEN call_turn_method(status, "mark_as_attended")
                 ELSE call_turn_method(status, "mark_as_failed")
    IN  IF tried.raised = "none" THEN tried
        ELSE call_turn_method(tried.status, "mark_as_failed")

\* run_process(turn, operations), called on a constructed Turn.
RunProcess ==
    /\ \E id \in DOMAIN turn_status, operations \in OperationOutcomes :
          LET r == run_process(turn_status[id], operations)
          IN  /\ turn_status' = [turn_status EXCEPT ![id] = r.status]
              /\ ran' = [called |-> TRUE, turn |-> id, operations |-> operations,
                         raised |-> r.raised]
    /\ made' = NoMade
    /\ prepared' = NoPrepared
    /\ UNCHANGED <<turn_seq, turn_fields>>
    /\ UNCHANGED outsideTurnObject

\* An Operation of a Turn: Turn.__init__ turns every dict it is given into an
\* Operation object, whose details hold the type and the fields.
Operation(type, fields) == [object |-> "Operation", type |-> type, fields |-> fields]

\* Turn.operations of the Turns handed to _prepare_operations.
PreparedInputs ==
    {<<>>,
     <<Operation("withdrawal", {"account_number", "amount"})>>,
     <<Operation("deposit", {"account_number", "amount"})>>,
     <<Operation("transfer", {"source_account", "amount"}),
       Operation("deposit", {"account_number", "amount"})>>,
     <<Operation("deposit", {"account_number", "amount"}),
       Operation("deposit", {"account_number", "amount"}),
       Operation("deposit", {"account_number", "amount"}),
       Operation("deposit", {"account_number", "amount"})>>}

\* ProcessDispatcher._validate_operation: required_fields
required_fields ==
    [withdrawal |-> {"account_number", "amount", "nip"},
     deposit |-> {"account_number", "amount"},
     transfer |-> {"source_account", "target_account", "amount"},
     transfer_between_own_accounts |->
         {"customer_id", "source_account", "target_account", "amount"},
     create_account |-> {"customer_id"}]

\* ProcessDispatcher._validate_operation: op['type'] subscripts the operation,
\* which raises TypeError on an Operation object; on a mapping the type must
\* be in required_fields and every required field present.
validate_operation(op) ==
    IF op.object = "Operation" THEN "TypeError"
    ELSE IF op.type \notin DOMAIN required_fields THEN "False"
    ELSE IF required_fields[op.type] \subseteq op.fields THEN "True"
    ELSE "False"

\* The public methods of server.teller.Teller and server.advisor.Advisor.
handler_methods ==
    [Teller |-> {"deposit", "withdraw", "transfer", "transfer_between_own_accounts",
                 "process_debit_payment", "pay_credit_card", "block_card_emergency",
                 "check_balance", "assign_turn", "complete_turn"},
     Advisor |-> {"create_customer", "delete_customer", "open_account",
                  "close_account", "link_account", "issue_debit_card",
                  "issue_credit_card", "deactivate_card", "get_customer_info",
                  "get_account_statement", "get_transaction_history",
                  "get_card_information"}]

\* _prepare_operations: the handler method the elif chain binds to an
\* operation type that passes validation.
method_for(type) ==
    IF type = "create_account" THEN "create_account"
    ELSE IF type = "withdrawal" THEN "process_withdrawal"
    ELSE IF type = "deposit" THEN "process_deposit"
    ELSE IF type = "transfer" THEN "process_transfer"
    ELSE "process_transfer_between_own_accounts"

\* _prepare_operations: an operation is bound when it passes validation and
\* hasattr(handler, <method>) holds.
is_bound(op, handler) ==
    /\ validate_operation(op) = "True"
    /\ method_for(op.type) \in handler_methods[handler]

\* _prepare_operations: the first 3 of the bound operations, or the TypeError
\* of the first validation.
prepare_operations(operations, handler) ==
    IF \E i \in 1..Len(operations) : validate_operation(operations[i]) = "TypeError"
    THEN [raised |-> "TypeError", bound |-> <<>>]
    ELSE LET all_bound == SelectSeq(operations, LAMBDA op : is_bound(op, handler))
         IN  [raised |-> "none",
              bound |-> SubSeq(all_bound, 1, IF Len(all_bound) < 3
                                             THEN Len(all_bound) ELSE 3)]

\* ProcessDispatcher._prepare_operations(turn, handler), called with a Turn
\* and one of the dispatcher's workers.
PrepareOperations ==
    /\ \E operations \in PreparedInputs, handler \in {"Teller", "Advisor"} :
          LET r == prepare_operations(operations, handler)
          IN  prepared' = [called |-> TRUE, operations |-> operations,
                           handler |-> handler, raised |-> r.raised,
                           bound |-> r.bound]
    /\ made' = NoMade
    /\ ran' = NoRan
    /\ UNCHANGED <<turn_seq, turn_status, turn_fields>>
    /\ UNCHANGED outsideTurnObject

TurnObjectNext ==
    \/ NewTurn
    \/ AssignService
    \/ MarkInProgress
    \/ MarkCompleted
    \/ MarkFailed
    \/ RunProcess
    \/ PrepareOperations

SpecTurnObject == DispatcherInit /\ [][TurnObjectNext]_vars

C15_StatusLifecycle ==
    [][\A id \in DOMAIN turn_status :
          turn_status'[id] # turn_status[id] =>
              <<turn_status[id], turn_status'[id]>> \in
                  {<<"PENDING", "IN_PROGRESS">>, <<"IN_PROGRESS", "COMPLETED">>,
                   <<"IN_PROGRESS", "FAILED">>}]_vars

\* C21: a Turn that run_process has executed ends COMPLETED if every one of
\* its operations succeeded, and FAILED if any of them failed or raised.
C21_ExecutedTurnEndsByResults ==
    ran.called =>
        turn_status[ran.turn] =
            IF \A i \in 1..Len(ran.operations) : ran.operations[i] = "True"
            THEN "COMPLETED" ELSE "FAILED"

\* Whether an operation lacks a field required for its type.
lacks_required_field(op) ==
    op.type \in DOMAIN required_fields /\ ~(required_fields[op.type] \subseteq op.fields)

\* C28: when the operations of a Turn are prepared, an operation that lacks a
\* field required for its type is rejected by the validation: the
\* preparation goes through without raising and binds no such operation.
C28_MissingFieldRejected ==
    (/\ prepared.called
     /\ \E i \in 1..Len(prepared.operations) :
           lacks_required_field(prepared.operations[i])) =>
        /\ prepared.raised = "none"
        /\ \A j \in 1..Len(prepared.bound) : ~lacks_required_field(prepared.bound[j])

\* Every _assign_handler call ends in the TypeError of its first line or the
\* AttributeError of its second: none reaches the pool lock, a worker or a
\* semaphore, and none returns.
AdmissionNeverReachesWorkers ==
    admission.called =>
        /\ admission.result \in {"running", "TypeError", "AttributeError"}
        /\ admission.acquires = <<>>

\* No _prepare_operations call binds an operation for a worker of the
\* dispatcher.
NothingIsEverBound == prepared.called => prepared.bound = <<>>

\* C14: the dispatcher classifies every Turn it dequeues, as "advisor" if at
\* least one of the Turn's operations is in the advisor-only set and as
\* "teller" otherwise, in agreement with Turn.requires_advisor.
C14_ClassificationAgrees ==
    (dispatching # <<>> /\ dispatcher # "determine") =>
        LET operations == turn_ops[dispatching[1].turn_id]
        IN  /\ raised # "TypeError"
            /\ determine_service_type(operations) =
                   IF requires_advisor(operations) THEN "advisor" ELSE "teller"

\* The entry of Turn id in the pending queue, if any.
QueuedEntries(id) ==
    {i \in 1..Len(priority_queue) : priority_queue[i][3].turn_id = id}

\* C22: when the admission of a dequeued Turn is over and has not started
\* the Turn, the Turn is back in the pending queue with the priority,
\* created_at, turn_id and operations it had and with status PENDING, and the
\* dispatch loop is at its next iteration.
C22_FailedAdmissionRequeues ==
    (admission.called /\ admission.result \notin {"running", "True"}) =>
        /\ dispatcher = "loop"
        /\ turn_status[admission.turn] = "PENDING"
        /\ \E i \in QueuedEntries(admission.turn) :
              priority_queue[i] = <<dispatching[1].priority,
                                    dispatching[1].created_at, dispatching[1]>>

\* C32: no submitted Turn is lost or dequeued twice: each one is exactly once
\* in the pending queue, or is the Turn whose admission the dispatch loop is
\* carrying out, or has been handed to a worker (its status is no longer
\* PENDING).
C32_NoSubmittedTurnLost ==
    \A id \in DOMAIN turn_status :
        \/ /\ Cardinality(QueuedEntries(id)) = 1
           /\ ~(dispatcher \in {"determine", "assign"}
                   /\ dispatching[1].turn_id = id)
        \/ /\ QueuedEntries(id) = {}
           /\ dispatcher \in {"determine", "assign"}
           /\ dispatching[1].turn_id = id
        \/ /\ QueuedEntries(id) = {}
           /\ turn_status[id] # "PENDING"

\* The semaphore of the pool that serves a list of operations.
matching_semaphore(operations) ==
    IF requires_advisor(operations) THEN "advisors_sem" ELSE "tellers_sem"

\* C25: an admission attempt makes exactly one acquire call, on the semaphore
\* of the Turn's class and non-blocking, and it returns True or False.
C25_AcquiresMatchingSemaphoreOnce ==
    (admission.called /\ admission.result # "running") =>
        /\ admission.acquires =
              <<[semaphore |-> matching_semaphore(turn_ops[admission.turn]),
                 blocking |-> FALSE]>>
        /\ admission.result \in {"True", "False"}

\* C19: once a stop of the dispatcher has been asked for, the dispatch loop
\* takes no further Turn off the queue, and every Turn that is IN_PROGRESS
\* still reaches COMPLETED or FAILED.
C19_StopHaltsDispatch ==
    /\ [][stop_requested => Len(priority_queue') >= Len(priority_queue)]_vars
    /\ \A id \in 1..MaxSubmitted :
          (/\ stop_requested
           /\ id \in DOMAIN turn_status
           /\ turn_status[id] = "IN_PROGRESS")
             ~> (/\ id \in DOMAIN turn_status
                 /\ turn_status[id] \in {"COMPLETED", "FAILED"})

====
